---- MODULE Spec2Model ----
(***************************************************************************)
(* DoBot backend: the conversational command processor (ChatUseCase) and   *)
(* the two collaborators it consumes, TaskRepository.create and            *)
(* ChatRepository.getTasksSummary / getUserStats.                          *)
(*                                                                         *)
(* Text is a sequence of atoms.  A message (and everything derived from    *)
(* it: the lowercased message, a keyword, a captured title) is a sequence  *)
(* of one-character atoms; the accented letters of the keyword tables are  *)
(* the atoms "a_acute" and "A_acute".  A fixed piece of a response         *)
(* template is one atom holding the whole piece (emoji written as an       *)
(* ASCII tag), so a response is the concatenation of template pieces and   *)
(* interpolated character sequences, in the order of the template literal. *)
(*                                                                         *)
(* An optional field (actionTaken?, suggestions?) is a sequence of length  *)
(* 0 (absent) or 1 (present).                                              *)
(***************************************************************************)
EXTENDS Integers, Sequences, FiniteSets, TLC

(***************************************************************************)
(* Bounds of the model.                                                    *)
(***************************************************************************)
\* longest message, counted in fragments of the list Fragments
MaxFrags == 2
\* the clock runs from 0 to MaxClock
MaxClock == 2
\* longest message of the concurrent specification, in fragments of
\* ConcFragments
MaxConcFrags == 2

(***************************************************************************)
(* Characters and the String methods the use case calls.                   *)
(***************************************************************************)
UpperChars ==
    << "A", "B", "C", "D", "E", "F", "G", "H", "I", "J", "K", "L", "M",
       "N", "O", "P", "Q", "R", "S", "T", "U", "V", "W", "X", "Y", "Z",
       "A_acute" >>

LowerChars ==
    << "a", "b", "c", "d", "e", "f", "g", "h", "i", "j", "k", "l", "m",
       "n", "o", "p", "q", "r", "s", "t", "u", "v", "w", "x", "y", "z",
       "a_acute" >>

\* the characters String.prototype.trim removes and the class \s matches
WhiteSpace == {" ", "\t", "\n", "\r"}

\* the characters the regular expression atom . does not match
LineTerminators == {"\n", "\r"}

\* the characters of the class ["']
Quotes == {"\"", "'"}

ToLowerChar(c) ==
    IF \E i \in 1..Len(UpperChars) : UpperChars[i] = c
    THEN LowerChars[CHOOSE i \in 1..Len(UpperChars) : UpperChars[i] = c]
    ELSE c

\* String.prototype.toLowerCase
toLowerCase(s) == [i \in 1..Len(s) |-> ToLowerChar(s[i])]

\* whether keyword k occurs in s at index i (1-based)
OccursAt(s, k, i) ==
    /\ i >= 1
    /\ i + Len(k) - 1 <= Len(s)
    /\ \A j \in 1..Len(k) : s[i + j - 1] = k[j]

\* String.prototype.includes
includes(s, k) == \E i \in 1..Len(s) + 1 : OccursAt(s, k, i)

\* String.prototype.trim
trim(s) ==
    LET keep == {i \in 1..Len(s) : s[i] \notin WhiteSpace}
    IN  IF keep = {} THEN <<>>
        ELSE LET lo == CHOOSE i \in keep : \A j \in keep : i <= j
                 hi == CHOOSE i \in keep : \A j \in keep : i >= j
             IN  SubSeq(s, lo, hi)

\* `${n}` for a non-negative integer n
RECURSIVE NumToStr(_)
NumToStr(n) ==
    LET digits == << "0", "1", "2", "3", "4", "5", "6", "7", "8", "9" >>
    IN  IF n < 10 THEN << digits[n + 1] >>
        ELSE NumToStr(n \div 10) \o << digits[(n % 10) + 1] >>

(***************************************************************************)
(* Intent classification: the keyword tables of isTaskCreationRequest,     *)
(* isStatusQuery, isBlockedTasksQuery and isBusyUserQuery.                 *)
(***************************************************************************)
kwCrear == <<"c", "r", "e", "a", "r">>
kwCreateEn == <<"c", "r", "e", "a", "t", "e">>
kwNuevaTarea == <<"n", "u", "e", "v", "a", " ", "t", "a", "r", "e", "a">>
kwNewTask == <<"n", "e", "w", " ", "t", "a", "s", "k">>
kwAgregar == <<"a", "g", "r", "e", "g", "a", "r">>
kwAdd == <<"a", "d", "d">>

CreateKeywords ==
    << kwCrear, kwCreateEn, kwNuevaTarea, kwNewTask, kwAgregar, kwAdd >>

StatusKeywords ==
    << <<"e", "s", "t", "a", "d", "o">>,
       <<"s", "t", "a", "t", "u", "s">>,
       <<"p", "r", "o", "g", "r", "e", "s", "o">>,
       <<"p", "r", "o", "g", "r", "e", "s", "s">>,
       <<"c", "u", "a_acute", "n", "t", "a", "s">>,
       <<"h", "o", "w", " ", "m", "a", "n", "y">>,
       <<"r", "e", "s", "u", "m", "e", "n">> >>

BlockedKeywords ==
    << <<"b", "l", "o", "q", "u", "e", "a", "d", "a", "s">>,
       <<"b", "l", "o", "c", "k", "e", "d">>,
       <<"b", "l", "o", "q", "u", "e", "a", "d", "a">>,
       <<"i", "m", "p", "e", "d", "i", "d", "a", "s">> >>

BusyKeywords ==
    << <<"m", "a_acute", "s", " ", "t", "a", "r", "e", "a", "s">>,
       <<"m", "o", "s", "t", " ", "t", "a", "s", "k", "s">>,
       <<"o", "c", "u", "p", "a", "d", "o">>,
       <<"b", "u", "s", "y">>,
       <<"c", "a", "r", "g", "a">>,
       <<"u", "s", "u", "a", "r", "i", "o">> >>

\* keywords.some(keyword => message.includes(keyword))
someIncluded(keywords, message) ==
    \E n \in 1..Len(keywords) : includes(message, keywords[n])

isTaskCreationRequest(message) == someIncluded(CreateKeywords, message)

isStatusQuery(message) == someIncluded(StatusKeywords, message)

isBlockedTasksQuery(message) == someIncluded(BlockedKeywords, message)

isBusyUserQuery(message) == someIncluded(BusyKeywords, message)

\* Route with the status keywords tested before the create keywords
RouteStatusFirst(message) ==
    IF isStatusQuery(message) THEN "handleStatusQuery"
    ELSE IF isTaskCreationRequest(message) THEN "handleTaskCreation"
    ELSE IF isBlockedTasksQuery(message) THEN "handleBlockedTasksQuery"
    ELSE IF isBusyUserQuery(message) THEN "handleBusyUserQuery"
    ELSE "handleGeneralQuery"

\* the if-ladder of processMessage: the handler the message is routed to
Route(message) ==
    IF isTaskCreationRequest(message) THEN "handleTaskCreation"
    ELSE IF isStatusQuery(message) THEN "handleStatusQuery"
    ELSE IF isBlockedTasksQuery(message) THEN "handleBlockedTasksQuery"
    ELSE IF isBusyUserQuery(message) THEN "handleBusyUserQuery"
    ELSE "handleGeneralQuery"

(***************************************************************************)
(* Title extraction: the six regular expressions of handleTaskCreation.    *)
(* A match result is <<>> (null) or << capture group 1 >>.                 *)
(***************************************************************************)
Min(S) == CHOOSE x \in S : \A y \in S : x <= y

\* (?:.*?)["']([^"']+)["'] tried from index e: the opening quotes j that the
\* lazy .*? can reach (no line terminator between e and j) and after which a
\* non-empty run of non-quote characters is closed by a quote
QuoteOpenings(s, e) ==
    {j \in e..Len(s) :
        /\ s[j] \in Quotes
        /\ \A t \in e..(j - 1) : s[t] \notin LineTerminators
        /\ \E q \in (j + 2)..Len(s) :
              /\ s[q] \in Quotes
              /\ \A t \in (j + 1)..(q - 1) : s[t] \notin Quotes}

\* the capture ([^"']+) for the opening quote j: up to the next quote
QuotedSpan(s, j) ==
    LET q == Min({t \in (j + 1)..Len(s) : s[t] \in Quotes})
    IN  SubSeq(s, j + 1, q - 1)

\* message.match(/kw(?:.*?)["']([^"']+)["']/): leftmost start, lazy .*?
MatchQuoted(s, kw) ==
    LET starts == {i \in 1..Len(s) :
                      /\ OccursAt(s, kw, i)
                      /\ QuoteOpenings(s, i + Len(kw)) # {}}
    IN  IF starts = {} THEN <<>>
        ELSE << QuotedSpan(s, Min(QuoteOpenings(s, Min(starts) + Len(kw)))) >>

\* \s*(.+)$ tried from index p: greedy \s*, then .+ must run to the end of
\* the input without crossing a line terminator; when the white space runs
\* to the end, \s* gives back its last character to .+
RestOfInput(s, p) ==
    LET nonWs == {t \in p..Len(s) : s[t] \notin WhiteSpace}
    IN  IF nonWs # {}
        THEN IF \A t \in Min(nonWs)..Len(s) : s[t] \notin LineTerminators
             THEN << SubSeq(s, Min(nonWs), Len(s)) >>
             ELSE <<>>
        ELSE IF p <= Len(s) /\ s[Len(s)] \notin LineTerminators
             THEN << << s[Len(s)] >> >>
             ELSE <<>>

\* :?\s*(.+)$ tried from index e: the colon is taken when present, and given
\* back when nothing can follow it
LineCapture(s, e) ==
    IF e <= Len(s) /\ s[e] = ":"
    THEN IF RestOfInput(s, e + 1) # <<>>
         THEN RestOfInput(s, e + 1)
         ELSE IF \A t \in e..Len(s) : s[t] \notin LineTerminators
              THEN << SubSeq(s, e, Len(s)) >>
              ELSE <<>>
    ELSE RestOfInput(s, e)

\* message.match(/kw:?\s*(.+)$/i) on the lowercased message
MatchLine(s, kw) ==
    LET starts == {i \in 1..Len(s) :
                      /\ OccursAt(s, kw, i)
                      /\ LineCapture(s, i + Len(kw)) # <<>>}
    IN  IF starts = {} THEN <<>>
        ELSE LineCapture(s, Min(starts) + Len(kw))

\* titleMatch that tries the patterns from the last to the first
titleMatchLastFirst(message) ==
    LET crear == MatchQuoted(message, kwCrear)
        create == MatchQuoted(message, kwCreateEn)
        nuevaTarea == MatchLine(message, kwNuevaTarea)
        newTask == MatchLine(message, kwNewTask)
        agregar == MatchQuoted(message, kwAgregar)
        add == MatchQuoted(message, kwAdd)
    IN  IF add # <<>> THEN add
        ELSE IF agregar # <<>> THEN agregar
        ELSE IF newTask # <<>> THEN newTask
        ELSE IF nuevaTarea # <<>> THEN nuevaTarea
        ELSE IF create # <<>> THEN create
        ELSE crear

\* titleMatch: the first pattern, in source order, that matches
titleMatch(message) ==
    LET crear == MatchQuoted(message, kwCrear)
        create == MatchQuoted(message, kwCreateEn)
        nuevaTarea == MatchLine(message, kwNuevaTarea)
        newTask == MatchLine(message, kwNewTask)
        agregar == MatchQuoted(message, kwAgregar)
    IN  IF crear # <<>> THEN crear
        ELSE IF create # <<>> THEN create
        ELSE IF nuevaTarea # <<>> THEN nuevaTarea
        ELSE IF newTask # <<>> THEN newTask
        ELSE IF agregar # <<>> THEN agregar
        ELSE MatchQuoted(message, kwAdd)

(***************************************************************************)
(* The database behind both repositories: the tables task, user and        *)
(* taskAssignment.  A nullable column is a sequence of length 0 or 1.      *)
(***************************************************************************)
Statuses == {"Created", "InProgress", "Blocked", "Completed", "Cancelled"}

\* include: { assignments: { include: { user: true } } } for one task row
AssignmentsOf(task, userTable, assignmentTable) ==
    LET idx == {i \in 1..Len(assignmentTable) :
                   assignmentTable[i].taskId = task.id}
        \* the index of the n-th assignment row of the task
        nth(n) == CHOOSE i \in idx : Cardinality({j \in idx : j <= i}) = n
        userOf(a) == userTable[CHOOSE u \in 1..Len(userTable) :
                                   userTable[u].id = a.userId]
    IN  [n \in 1..Cardinality(idx) |->
            [id |-> assignmentTable[nth(n)].id,
             userId |-> assignmentTable[nth(n)].userId,
             user |-> userOf(assignmentTable[nth(n)])]]

\* mapToResponseDTO of both repositories
mapToResponseDTO(task, userTable, assignmentTable) ==
    [id |-> task.id,
     title |-> task.title,
     description |-> task.description,
     status |-> task.status,
     createdAt |-> task.createdAt,
     assignments |-> AssignmentsOf(task, userTable, assignmentTable)]

\* tasks.filter(t => t.status === status): the rows of that status, in
\* table order
FilterByStatus(taskRows, status) ==
    LET idx == {i \in 1..Len(taskRows) : taskRows[i].status = status}
        nth(n) == CHOOSE i \in idx : Cardinality({j \in idx : j <= i}) = n
    IN  [n \in 1..Cardinality(idx) |-> taskRows[nth(n)]]

\* acc[key] = value on an object kept as its entries in insertion order: an
\* existing key keeps its place
SetEntry(entries, key, value) ==
    IF \E i \in 1..Len(entries) : entries[i].key = key
    THEN [i \in 1..Len(entries) |->
             IF entries[i].key = key
             THEN [key |-> key, value |-> value]
             ELSE entries[i]]
    ELSE Append(entries, [key |-> key, value |-> value])

\* acc[key] || 0
GetEntry(entries, key) ==
    IF \E i \in 1..Len(entries) : entries[i].key = key
    THEN entries[CHOOSE i \in 1..Len(entries) : entries[i].key = key].value
    ELSE 0

\* CountByStatus that sets acc[task.status] = 1 at every row
CountByStatusOnce(taskRows) ==
    LET first == {i \in 1..Len(taskRows) :
                     \A j \in 1..(i - 1) : taskRows[j].status # taskRows[i].status}
        nth(n) == CHOOSE i \in first : Cardinality({j \in first : j <= i}) = n
    IN  [n \in 1..Cardinality(first) |->
            [key |-> taskRows[nth(n)].status, value |-> 1]]

\* tasks.reduce((acc, task) => { acc[task.status] = (acc[task.status] || 0) + 1 })
\* from acc = {}: a key is inserted when the first row of its status is
\* read and is increased by one at each later row of that status
CountByStatus(taskRows) ==
    LET first == {i \in 1..Len(taskRows) :
                     \A j \in 1..(i - 1) : taskRows[j].status # taskRows[i].status}
        nth(n) == CHOOSE i \in first : Cardinality({j \in first : j <= i}) = n
    IN  [n \in 1..Cardinality(first) |->
            [key |-> taskRows[nth(n)].status,
             value |-> Cardinality({i \in 1..Len(taskRows) :
                           taskRows[i].status = taskRows[nth(n)].status})]]

\* Array.prototype.sort((a, b) => key(b) - key(a)), which is stable: the
\* elements by descending key, those of equal key in their order in seq;
\* keys[i] is the key of seq[i]
SortDescending(seq, keys) ==
    LET \* the place of seq[i]: after the larger keys and the earlier equals
        place(i) == 1 + Cardinality({j \in 1..Len(seq) :
                             \/ keys[j] > keys[i]
                             \/ keys[j] = keys[i] /\ j < i})
    IN  [n \in 1..Len(seq) |-> seq[CHOOSE i \in 1..Len(seq) : place(i) = n]]

\* ChatRepository.getTasksSummary on the tables as read by findMany
getTasksSummary(taskTable, userTable, assignmentTable) ==
    LET dto(rows) == [i \in 1..Len(rows) |->
                         mapToResponseDTO(rows[i], userTable, assignmentTable)]
        done == FilterByStatus(taskTable, "Completed")
        completed == SortDescending(done,
                                    [i \in 1..Len(done) |-> done[i].createdAt])
    IN  [total |-> Len(taskTable),
         byStatus |-> CountByStatus(taskTable),
         blocked |-> dto(FilterByStatus(taskTable, "Blocked")),
         recentlyCompleted |->
             dto(SubSeq(completed, 1,
                        IF Len(completed) < 5 THEN Len(completed) ELSE 5))]

\* user.assignments.filter(a => !['Completed','Cancelled'].includes(a.task.status)).length
ActiveTasks(user, taskTable, assignmentTable) ==
    Cardinality({i \in 1..Len(assignmentTable) :
        /\ assignmentTable[i].userId = user.id
        /\ \E t \in 1..Len(taskTable) :
              /\ taskTable[t].id = assignmentTable[i].taskId
              /\ taskTable[t].status \notin {"Completed", "Cancelled"}})

\* users.reduce((acc, user) => { acc[user.name] = activeTasks })
RECURSIVE CountPerUser(_, _, _, _)
CountPerUser(userRows, taskTable, assignmentTable, acc) ==
    IF userRows = <<>> THEN acc
    ELSE CountPerUser(Tail(userRows), taskTable, assignmentTable,
                      SetEntry(acc, Head(userRows).name,
                               ActiveTasks(Head(userRows), taskTable,
                                           assignmentTable)))

\* getUserStats that takes the first entry of tasksPerUser without sorting
getUserStatsUnsorted(taskTable, userTable, assignmentTable) ==
    LET tasksPerUser == CountPerUser(userTable, taskTable, assignmentTable, <<>>)
    IN  [totalUsers |-> Len(userTable),
         tasksPerUser |-> tasksPerUser,
         mostBusyUser |->
             IF tasksPerUser # <<>> /\ tasksPerUser[1].key # <<>>
             THEN << tasksPerUser[1].key >>
             ELSE <<>>]

\* ChatRepository.getUserStats; mostBusyUser is <<>> for null
getUserStats(taskTable, userTable, assignmentTable) ==
    LET tasksPerUser == CountPerUser(userTable, taskTable, assignmentTable, <<>>)
        sorted == SortDescending(tasksPerUser,
                                 [i \in 1..Len(tasksPerUser) |->
                                     tasksPerUser[i].value])
    IN  [totalUsers |-> Len(userTable),
         tasksPerUser |-> tasksPerUser,
         mostBusyUser |->
             IF sorted # <<>> /\ sorted[1].key # <<>>
             THEN << sorted[1].key >>
             ELSE <<>>]

\* the row prisma.task.create inserts for TaskRepository.create(taskData)
NewTaskRow(taskData, id, createdAt) ==
    [id |-> id,
     title |-> taskData.title,
     description |-> IF taskData.description # <<>>
                     THEN << taskData.description >>
                     ELSE <<>>,
     status |-> taskData.status,
     createdAt |-> createdAt]

(***************************************************************************)
(* The responses of the five handlers.  A ChatResponseDTO is a record      *)
(* [response, actionTaken, suggestions, timestamp].                        *)
(***************************************************************************)
\* ErrorText that never reads error.message
ErrorTextUnknown(error) == << "Error desconocido" >>

\* error instanceof Error ? error.message : 'Error desconocido'
ErrorText(error) ==
    IF error.isError THEN error.message ELSE << "Error desconocido" >>

\* TaskCreatedResponse whose text leaves out the id of the task
TaskCreatedResponseNoId(title, task, timestamp) ==
    [response |-> << "[ok] He creado la tarea \"" >> \o title
                  \o << "\" exitosamente." >>,
     actionTaken |-> << [type |-> "task_created", data |-> task] >>,
     suggestions |-> << << "Asignar usuarios a esta tarea",
                           "Cambiar el estado a \"In Progress\"",
                           "Agregar mas detalles a la descripcion" >> >>,
     timestamp |-> timestamp]

\* handleTaskCreation, lines 277-289: create resolved with task
TaskCreatedResponse(title, task, timestamp) ==
    [response |-> << "[ok] He creado la tarea \"" >> \o title
                  \o << "\" exitosamente. La tarea tiene el ID " >>
                  \o NumToStr(task.id)
                  \o << " y esta en estado \"Created\"." >>,
     actionTaken |-> << [type |-> "task_created", data |-> task] >>,
     suggestions |-> << << "Asignar usuarios a esta tarea",
                           "Cambiar el estado a \"In Progress\"",
                           "Agregar mas detalles a la descripcion" >> >>,
     timestamp |-> timestamp]

\* TaskCreationFailedResponse that reports no detail of the error
TaskCreationFailedResponseNoDetail(title, error, timestamp) ==
    [response |-> << "[x] No pude crear la tarea \"" >> \o title
                  \o << "\"." >>,
     actionTaken |-> <<>>,
     suggestions |-> <<>>,
     timestamp |-> timestamp]

\* handleTaskCreation, lines 290-295: create rejected with error
TaskCreationFailedResponse(title, error, timestamp) ==
    [response |-> << "[x] No pude crear la tarea \"" >> \o title
                  \o << "\". Error: " >> \o ErrorText(error),
     actionTaken |-> <<>>,
     suggestions |-> <<>>,
     timestamp |-> timestamp]

ClarifyingText ==
    << "[?] Entiendo que quieres crear una tarea, pero no pude identificar el titulo. Puedes decir algo como: \"Crear tarea 'Revisar codigo'\" o \"Nueva tarea: Actualizar documentacion\"" >>

\* handleTaskCreation, lines 298-306: titleMatch is null
NoTitleResponse(timestamp) ==
    [response |-> ClarifyingText,
     actionTaken |-> <<>>,
     suggestions |-> << << "Crear tarea \"Ejemplo de tarea\"",
                           "Nueva tarea: Revisar documentacion",
                           "Agregar tarea \"Testing de la aplicacion\"" >> >>,
     timestamp |-> timestamp]

getStatusEmoji(status) ==
    CASE status = "Created" -> "[memo]"
      [] status = "InProgress" -> "[zap]"
      [] status = "Blocked" -> "[no_entry]"
      [] status = "Completed" -> "[ok]"
      [] status = "Cancelled" -> "[x]"
      [] OTHER -> "[clipboard]"

(***************************************************************************)
(* Number arithmetic.  A positive Number is a record [bits, exp]: bits is   *)
(* the 53-bit significand, most significant bit first (bits[1] = 1), and    *)
(* the value is 1.bits[2]...bits[53] * 2^exp.  Every operation rounds its   *)
(* exact result to nearest, ties to even.                                   *)
(***************************************************************************)
\* the width of the significand of a Number
SignificandBits == 53

RECURSIVE Pow2(_)
Pow2(k) == IF k = 0 THEN 1 ELSE 2 * Pow2(k - 1)

\* 2^k modulo d
RECURSIVE Pow2Mod(_, _)
Pow2Mod(k, d) ==
    IF k = 0 THEN 1 % d
    ELSE IF k % 2 = 0 THEN (Pow2Mod(k \div 2, d) * Pow2Mod(k \div 2, d)) % d
    ELSE (2 * Pow2Mod(k - 1, d)) % d

\* the n bits of the quotient r / d that follow the binary point, for
\* r < d, and the remainder left after them: bit i is the integer part of
\* 2 * (r * 2^(i-1) mod d) / d
QuotientBits(r, d, n) ==
    [bits |-> [i \in 1..n |->
                  IF 2 * ((r * Pow2Mod(i - 1, d)) % d) >= d THEN 1 ELSE 0],
     rem |-> (r * Pow2Mod(n, d)) % d]

\* round to nearest, ties to even: kept are the bits kept, guard the first
\* bit dropped and sticky whether any later dropped bit is 1
RoundToNearestEven(kept, exp, guard, sticky) ==
    LET up == guard = 1 /\ (sticky \/ kept[Len(kept)] = 1)
        zeros == {i \in 1..Len(kept) : kept[i] = 0}
        last == CHOOSE i \in zeros : \A j \in zeros : j <= i
    IN  IF ~up THEN [bits |-> kept, exp |-> exp]
        ELSE IF zeros = {}
             THEN [bits |-> [i \in 1..Len(kept) |-> IF i = 1 THEN 1 ELSE 0],
                   exp |-> exp + 1]
             ELSE [bits |-> [i \in 1..Len(kept) |->
                                IF i < last THEN kept[i]
                                ELSE IF i = last THEN 1 ELSE 0],
                   exp |-> exp]

\* the Number n / d for integers 0 < n <= d
Divide(n, d) ==
    LET shift == CHOOSE k \in 0..30 :
                     /\ n * Pow2(k) >= d
                     /\ \A j \in 0..(k - 1) : n * Pow2(j) < d
        q == QuotientBits(n * Pow2(shift) - d, d, SignificandBits - 1)
        guard == IF 2 * q.rem >= d THEN 1 ELSE 0
        sticky == 2 * q.rem - guard * d > 0
    IN  RoundToNearestEven(<< 1 >> \o q.bits, 0 - shift, guard, sticky)

\* the sum of two bit strings of the same length, one bit longer: the
\* carry into a place comes from the nearest lower place where both bits
\* are 1, through places where one bit is 1
AddBits(a, b) ==
    LET carry(i) ==
            \E j \in i..Len(a) :
                /\ a[j] + b[j] = 2
                /\ \A k \in i..(j - 1) : a[k] + b[k] = 1
        bit(i) == IF carry(i) THEN 1 ELSE 0
    IN  [i \in 1..(Len(a) + 1) |->
            IF i = 1 THEN bit(1)
            ELSE (a[i - 1] + b[i - 1] + bit(i)) % 2]

\* bits shifted left by k places, in a string of length n
ShiftedBits(bits, k, n) ==
    [i \in 1..n |->
        IF i <= n - k - Len(bits) THEN 0
        ELSE IF i <= n - k THEN bits[i - (n - k - Len(bits))]
        ELSE 0]

\* the Number x * 100: the exact product 64x + 32x + 4x, then rounded
Times100(x) ==
    LET n == SignificandBits + 7
        product == AddBits(AddBits(ShiftedBits(x.bits, 6, n),
                                   ShiftedBits(x.bits, 5, n)),
                           ShiftedBits(x.bits, 2, n + 1))
        lead == CHOOSE i \in 1..Len(product) :
                    /\ product[i] = 1
                    /\ \A j \in 1..(i - 1) : product[j] = 0
        kept == SubSeq(product, lead, lead + SignificandBits - 1)
        guard == IF lead + SignificandBits <= Len(product)
                 THEN product[lead + SignificandBits] ELSE 0
        sticky == \E i \in (lead + SignificandBits + 1)..Len(product) :
                      product[i] = 1
    IN  RoundToNearestEven(kept, x.exp + (Len(product) - lead)
                                     - (SignificandBits - 1),
                           guard, sticky)

\* the integer whose binary digits are bits
RECURSIVE BitsToInt(_)
BitsToInt(bits) ==
    IF bits = <<>> THEN 0
    ELSE 2 * BitsToInt(SubSeq(bits, 1, Len(bits) - 1)) + bits[Len(bits)]

\* Math.round of a positive Number below 2^30: the nearest integer, a half
\* rounded up
MathRound(x) ==
    IF x.exp < 0 - 1 THEN 0
    ELSE IF x.exp = 0 - 1 THEN 1
    ELSE BitsToInt(SubSeq(x.bits, 1, x.exp + 1)) + x.bits[x.exp + 2]

\* summary.total > 0
\*   ? Math.round(((summary.byStatus['Completed'] || 0) / summary.total) * 100)
\*   : 0
completionRate(summary) ==
    IF summary.total > 0
    THEN IF GetEntry(summary.byStatus, "Completed") = 0 THEN 0
         ELSE MathRound(Times100(Divide(GetEntry(summary.byStatus, "Completed"),
                                        summary.total)))
    ELSE 0

\* Object.entries(summary.byStatus).forEach(...): one line per entry
StatusLines(byStatus) ==
    LET RECURSIVE lines(_)
        lines(i) ==
            IF i > Len(byStatus) THEN <<>>
            ELSE << "* ", getStatusEmoji(byStatus[i].key), " ",
                    byStatus[i].key, ": " >>
                 \o NumToStr(byStatus[i].value)
                 \o << " tareas\n" >> \o lines(i + 1)
    IN  lines(1)

\* handleStatusQuery, lines 311-339: getTasksSummary resolved
StatusResponse(summary, timestamp) ==
    [response |-> << "[chart] **Resumen de Tareas:**\n\n", "* Total: " >>
                  \o NumToStr(summary.total) \o << " tareas\n" >>
                  \o StatusLines(summary.byStatus)
                  \o << "\n[target] Tasa de completacion: " >>
                  \o NumToStr(completionRate(summary)) \o << "%" >>,
     actionTaken |-> << [type |-> "query_executed", data |-> summary] >>,
     suggestions |-> << << "Que tareas estan bloqueadas?",
                           "Quien tiene mas tareas pendientes?",
                           "Crear una nueva tarea" >> >>,
     timestamp |-> timestamp]

\* handleStatusQuery, lines 340-345
StatusFailedResponse(error, timestamp) ==
    [response |-> << "[x] Error al obtener el resumen de tareas: " >>
                  \o ErrorText(error),
     actionTaken |-> <<>>,
     suggestions |-> <<>>,
     timestamp |-> timestamp]

CelebratoryText ==
    << "[party] Excelente! No hay tareas bloqueadas en este momento. Todas las tareas estan fluyendo correctamente." >>

\* task.assignments.map(a => a.user.name).join(', ')
JoinNames(assigned) ==
    LET RECURSIVE join(_)
        join(i) ==
            IF i > Len(assigned) THEN <<>>
            ELSE (IF i > 1 THEN << ", " >> ELSE <<>>)
                 \o assigned[i].user.name \o join(i + 1)
    IN  join(1)

\* BlockedEntries that numbers the entries by index instead of index + 1
BlockedEntriesFromZero(blocked) ==
    LET RECURSIVE entries(_)
        entries(i) ==
            IF i > Len(blocked) THEN <<>>
            ELSE NumToStr(i - 1) \o << ". **" >> \o blocked[i].title
                 \o << "**\n" >>
                 \o (IF blocked[i].description # <<>>
                        /\ blocked[i].description[1] # <<>>
                     THEN << "   [memo] " >> \o blocked[i].description[1]
                          \o << "\n" >>
                     ELSE <<>>)
                 \o (IF Len(blocked[i].assignments) > 0
                     THEN << "   [people] Asignado a: " >>
                          \o JoinNames(blocked[i].assignments) \o << "\n" >>
                     ELSE <<>>)
                 \o << "   [date] Creada: " >>
                 \o << "date:" >> \o NumToStr(blocked[i].createdAt)
                 \o << "\n\n" >> \o entries(i + 1)
    IN  entries(1)

\* summary.blocked.forEach((task, index) => ...): one entry per blocked task;
\* new Date(task.createdAt).toLocaleDateString() is the atom of the instant
BlockedEntries(blocked) ==
    LET RECURSIVE entries(_)
        entries(i) ==
            IF i > Len(blocked) THEN <<>>
            ELSE NumToStr(i) \o << ". **" >> \o blocked[i].title
                 \o << "**\n" >>
                 \o (IF blocked[i].description # <<>>
                        /\ blocked[i].description[1] # <<>>
                     THEN << "   [memo] " >> \o blocked[i].description[1]
                          \o << "\n" >>
                     ELSE <<>>)
                 \o (IF Len(blocked[i].assignments) > 0
                     THEN << "   [people] Asignado a: " >>
                          \o JoinNames(blocked[i].assignments) \o << "\n" >>
                     ELSE <<>>)
                 \o << "   [date] Creada: " >>
                 \o << "date:" >> \o NumToStr(blocked[i].createdAt)
                 \o << "\n\n" >> \o entries(i + 1)
    IN  entries(1)

\* handleBlockedTasksQuery, lines 350-390: getTasksSummary resolved
BlockedResponse(summary, timestamp) ==
    IF Len(summary.blocked) = 0
    THEN [response |-> CelebratoryText,
          actionTaken |-> <<>>,
          suggestions |-> << << "Ver resumen general de tareas",
                                "Crear una nueva tarea",
                                "Quien tiene mas tareas pendientes?" >> >>,
          timestamp |-> timestamp]
    ELSE [response |-> << "[no_entry] **Tareas Bloqueadas (" >>
                       \o NumToStr(Len(summary.blocked)) \o << "):**\n\n" >>
                       \o BlockedEntries(summary.blocked),
          actionTaken |-> << [type |-> "query_executed",
                              data |-> [blockedTasks |-> summary.blocked]] >>,
          suggestions |-> << << "Cambiar estado de tarea bloqueada",
                                "Ver resumen general",
                                "Crear nueva tarea" >> >>,
          timestamp |-> timestamp]

\* handleBlockedTasksQuery, lines 391-396
BlockedFailedResponse(error, timestamp) ==
    [response |-> << "[x] Error al consultar tareas bloqueadas: " >>
                  \o ErrorText(error),
     actionTaken |-> <<>>,
     suggestions |-> <<>>,
     timestamp |-> timestamp]

\* count > 3 ? fire : count > 1 ? clipboard : check
TierEmoji(count) ==
    IF count > 3 THEN "[fire]" ELSE IF count > 1 THEN "[clipboard]" ELSE "[ok]"

\* UserLines that writes the entries of tasksPerUser without sorting them
UserLinesUnsorted(tasksPerUser) ==
    LET RECURSIVE lines(_)
        lines(i) ==
            IF i > Len(tasksPerUser) THEN <<>>
            ELSE << "* ", TierEmoji(tasksPerUser[i].value), " " >>
                 \o tasksPerUser[i].key \o << ": " >>
                 \o NumToStr(tasksPerUser[i].value)
                 \o << " tareas\n" >> \o lines(i + 1)
    IN  lines(1)

\* Object.entries(tasksPerUser).sort(([,a], [,b]) => b - a).forEach(...)
UserLines(tasksPerUser) ==
    LET sorted == SortDescending(tasksPerUser,
                                 [i \in 1..Len(tasksPerUser) |->
                                     tasksPerUser[i].value])
        RECURSIVE lines(_)
        lines(i) ==
            IF i > Len(sorted) THEN <<>>
            ELSE << "* ", TierEmoji(sorted[i].value), " " >>
                 \o sorted[i].key \o << ": " >>
                 \o NumToStr(sorted[i].value)
                 \o << " tareas\n" >> \o lines(i + 1)
    IN  lines(1)

NoBusyUserText ==
    << "[clipboard] No hay usuarios con tareas asignadas en este momento." >>

\* handleBusyUserQuery, lines 401-438: getUserStats resolved
BusyUserResponse(userStats, timestamp) ==
    IF userStats.mostBusyUser = <<>>
    THEN [response |-> NoBusyUserText,
          actionTaken |-> <<>>,
          suggestions |-> << << "Ver resumen de tareas",
                                "Crear nueva tarea",
                                "Ver tareas bloqueadas" >> >>,
          timestamp |-> timestamp]
    ELSE [response |-> << "[people] **Estadisticas de Usuarios:**\n\n",
                          "[trophy] Usuario mas ocupado: **" >>
                       \o userStats.mostBusyUser[1] \o << "** (" >>
                       \o NumToStr(GetEntry(userStats.tasksPerUser,
                                            userStats.mostBusyUser[1]))
                       \o << " tareas activas)\n\n",
                             "[chart] **Distribucion de tareas:**\n" >>
                       \o UserLines(userStats.tasksPerUser),
          actionTaken |-> << [type |-> "query_executed", data |-> userStats] >>,
          suggestions |-> << << "Ver tareas bloqueadas",
                                "Crear nueva tarea",
                                "Ver resumen general" >> >>,
          timestamp |-> timestamp]

\* handleBusyUserQuery, lines 439-444
BusyUserFailedResponse(error, timestamp) ==
    [response |-> << "[x] Error al consultar estadisticas de usuarios: " >>
                  \o ErrorText(error),
     actionTaken |-> <<>>,
     suggestions |-> <<>>,
     timestamp |-> timestamp]

GeneralTexts ==
    << << "[robot] Soy tu ", "asistente",
          " para gestion de tareas. Puedo ayudarte a crear tareas, consultar estados y mas." >>,
       << "[bulb] Preguntame sobre tareas bloqueadas, usuarios ocupados o crea nuevas tareas." >>,
       << "[target] Estoy aqui para hacer tu gestion de proyectos mas eficiente." >> >>

\* GeneralResponse that reports an action
GeneralResponseWithAction(r, timestamp) ==
    [response |-> GeneralTexts[r + 1],
     actionTaken |-> << [type |-> "query_executed", data |-> <<>>] >>,
     suggestions |-> << << "Crear tarea \"Mi nueva tarea\"",
                           "Que tareas estan bloqueadas?",
                           "Quien tiene mas tareas pendientes?",
                           "Ver resumen de tareas" >> >>,
     timestamp |-> timestamp]

\* handleGeneralQuery; r is Math.floor(Math.random() * responses.length)
GeneralResponse(r, timestamp) ==
    [response |-> GeneralTexts[r + 1],
     actionTaken |-> <<>>,
     suggestions |-> << << "Crear tarea \"Mi nueva tarea\"",
                           "Que tareas estan bloqueadas?",
                           "Quien tiene mas tareas pendientes?",
                           "Ver resumen de tareas" >> >>,
     timestamp |-> timestamp]

(***************************************************************************)
(* Inputs: the messages a caller sends, the errors a collaborator rejects  *)
(* with, and the databases the processor starts on.                        *)
(***************************************************************************)
ToUpperChar(c) ==
    IF \E i \in 1..Len(LowerChars) : LowerChars[i] = c
    THEN UpperChars[CHOOSE i \in 1..Len(LowerChars) : LowerChars[i] = c]
    ELSE c

toUpperCase(s) == [i \in 1..Len(s) |-> ToUpperChar(s[i])]

\* the pieces messages are built from: create keywords (one capitalised),
\* separators, quoted spans (a title, white space only), a bare word, a
\* status keyword and a lone quote
Fragments ==
    << <<"C", "r", "e", "a", "r">>,
       <<"a", "d", "d">>,
       <<"n", "u", "e", "v", "a", " ", "t", "a", "r", "e", "a">>,
       <<":">>,
       <<" ">>,
       <<"\n">>,
       <<"\"", "A", "b", "\"">>,
       <<"'", " ", "'">>,
       <<"A", "b">>,
       <<"e", "s", "t", "a", "d", "o">>,
       <<"'">> >>

\* every concatenation of exactly n pieces of frags
RECURSIVE Concatenations(_, _)
Concatenations(frags, n) ==
    IF n = 0 THEN {<<>>}
    ELSE {m \o frags[i] : m \in Concatenations(frags, n - 1),
                          i \in 1..Len(frags)}

SeqToSet(seq) == {seq[i] : i \in 1..Len(seq)}

AllKeywords ==
    SeqToSet(CreateKeywords) \cup SeqToSet(StatusKeywords)
        \cup SeqToSet(BlockedKeywords) \cup SeqToSet(BusyKeywords)

\* every keyword of every table, as written and in capitals, alone, inside a
\* word, followed by a quoted title or by a colon and a title
KeywordProbes ==
    {pre \o kw \o post :
        pre \in {<<>>, <<"A", "b">>},
        kw \in AllKeywords \cup {toUpperCase(k) : k \in AllKeywords},
        post \in {<<>>, <<" ", "\"", "A", "b", "\"">>,
                  <<":", " ", "A", "b", " ">>}}

\* the non-empty messages of the sequential specification
Messages ==
    UNION {Concatenations(Fragments, n) : n \in 1..MaxFrags}
        \cup KeywordProbes \cup {<<"H", "o", "l", "a">>}

ConcFragments ==
    << <<"C", "r", "e", "a", "r">>,
       <<"\"", "A", "b", "\"">>,
       <<"'", "c", "d", "'">> >>

\* the messages of the concurrent specification
ConcMessages ==
    UNION {Concatenations(ConcFragments, n) : n \in 1..MaxConcFrags}
        \cup {<<"e", "s", "t", "a", "d", "o">>,
              <<"B", "l", "o", "c", "k", "e", "d">>,
              <<"b", "u", "s", "y">>}

\* JSON values a request body can hold in its message field, each with its
\* JavaScript type and its text (the characters of a string, the literal
\* of a number or boolean): absent, null, an object, numbers, booleans,
\* strings
MessageValues ==
    {[type |-> "undefined", value |-> <<>>],
     [type |-> "null", value |-> <<>>],
     [type |-> "object", value |-> <<>>],
     [type |-> "number", value |-> << "0" >>],
     [type |-> "number", value |-> << "5" >>],
     [type |-> "boolean", value |-> << "false" >>],
     [type |-> "boolean", value |-> << "true" >>],
     [type |-> "string", value |-> <<>>],
     [type |-> "string", value |-> <<" ">>],
     [type |-> "string", value |-> <<"H", "o", "l", "a">>],
     [type |-> "string", value |-> <<"e", "s", "t", "a", "d", "o">>],
     [type |-> "string", value |-> <<"a", "d", "d", " ", "'", "x", "'">>],
     [type |-> "string", value |-> <<"b", "l", "o", "c", "k", "e", "d">>],
     [type |-> "string", value |-> <<"b", "u", "s", "y">>]}

\* the bodies of the requests to POST /api/chat
RequestBodies ==
    [message : MessageValues, userId : {<<>>, << 7 >>}, context : {<<>>}]

\* the ChatMessageDTOs of the specification of the optional fields: a
\* message of each intent, with and without userId and context (<<>> is an
\* absent field)
FieldMessageData ==
    [message : {<<"H", "o", "l", "a">>,
                <<"a", "d", "d", " ", "'", "x", "'">>,
                <<"a", "d", "d">>,
                <<"e", "s", "t", "a", "d", "o">>,
                <<"b", "l", "o", "c", "k", "e", "d">>,
                <<"b", "u", "s", "y">>},
     userId : {<<>>, << 7 >>},
     context : {<<>>, << "help" >>}]

\* what follows a create keyword in a probe of the extraction: a quoted
\* title, a colon and a bare title, a bare title, a quoted title on the next
\* line, or nothing; t is the title
ClauseTails(t) ==
    { <<" ", "\"">> \o t \o <<"\"">>,
      <<":", " ">> \o t,
      <<" ">> \o t,
      <<"\n", "'">> \o t \o <<"'">>,
      <<>> }

\* the messages of the extraction specification: two clauses, each a create
\* keyword and what follows it, with the titles x and y, separated by a
\* space or a line break
ExtractionMessages ==
    {k1 \o t1 \o sep \o k2 \o t2 :
        k1 \in SeqToSet(CreateKeywords), t1 \in ClauseTails(<<"x">>),
        sep \in {<<" ">>, <<"\n">>},
        k2 \in SeqToSet(CreateKeywords), t2 \in ClauseTails(<<"y">>)}

\* what a rejected prisma call rejects with: an Error carrying a message
CollaboratorErrors ==
    {[isError |-> TRUE, message |-> << "Can't reach database server" >>],
     [isError |-> TRUE, message |-> << "Timed out fetching a new connection" >>]}

\* the databases a run starts on: empty, or three tasks and two users
SampleDatabases ==
    {[tasks |-> <<>>, users |-> <<>>, taskAssignments |-> <<>>],
     [tasks |-> << [id |-> 1, title |-> <<"a">>, description |-> <<>>,
                    status |-> "Blocked", createdAt |-> 0],
                   [id |-> 2, title |-> <<"b">>,
                    description |-> << << "notes" >> >>,
                    status |-> "Completed", createdAt |-> 0],
                   [id |-> 3, title |-> <<"c">>, description |-> <<>>,
                    status |-> "InProgress", createdAt |-> 0] >>,
      users |-> << [id |-> 1, name |-> << "Ana" >>],
                   [id |-> 2, name |-> << "Carlos" >>] >>,
      taskAssignments |-> << [id |-> 1, taskId |-> 1, userId |-> 1],
                             [id |-> 2, taskId |-> 3, userId |-> 1],
                             [id |-> 3, taskId |-> 2, userId |-> 2] >>]}

\* the task row with this id and status: a title made of the id, a
\* description on the even ids, created at an instant of the clock
SampleTask(id, status) ==
    [id |-> id,
     title |-> << "T" >> \o NumToStr(id),
     description |-> IF id % 2 = 0 THEN << << "notes" >> >> ELSE <<>>,
     status |-> status,
     createdAt |-> id % (MaxClock + 1)]

\* the task table holding, for each run [status, count] in turn, count rows
\* of that status, with the ids 1, 2, ... in table order
TaskTable(runs) ==
    LET RECURSIVE statusAt(_, _)
        statusAt(k, i) ==
            IF i <= runs[k].count THEN runs[k].status
            ELSE statusAt(k + 1, i - runs[k].count)
        RECURSIVE size(_)
        size(k) == IF k > Len(runs) THEN 0 ELSE runs[k].count + size(k + 1)
    IN  [i \in 1..size(1) |-> SampleTask(i, statusAt(1, i))]

\* the task tables of the query specification, by their runs of statuses
StatusLayouts ==
    { <<>>,
      << [status |-> "Created", count |-> 1] >>,
      << [status |-> "Completed", count |-> 2] >>,
      << [status |-> "Blocked", count |-> 1],
         [status |-> "Completed", count |-> 1],
         [status |-> "InProgress", count |-> 1] >>,
      << [status |-> "Completed", count |-> 1],
         [status |-> "Blocked", count |-> 2],
         [status |-> "Completed", count |-> 1],
         [status |-> "Cancelled", count |-> 2],
         [status |-> "Blocked", count |-> 1] >>,
      << [status |-> "InProgress", count |-> 7],
         [status |-> "Completed", count |-> 1] >>,
      << [status |-> "Created", count |-> 3],
         [status |-> "InProgress", count |-> 4],
         [status |-> "Completed", count |-> 3] >>,
      << [status |-> "Completed", count |-> 23],
         [status |-> "Created", count |-> 17] >> }

\* the users and assignments of the query specification: nobody; three
\* users, the busiest one read last, one of them without assignments; two
\* users with the same tasks
Teams ==
    { [users |-> <<>>, assigned |-> <<>>],
      [users |-> << [id |-> 1, name |-> << "Carlos" >>],
                    [id |-> 2, name |-> << "Eva" >>],
                    [id |-> 3, name |-> << "Ana" >>] >>,
       assigned |-> << [userId |-> 3, taskIds |-> 1..5],
                       [userId |-> 1, taskIds |-> {6, 7}] >>],
      [users |-> << [id |-> 1, name |-> << "Ana" >>],
                    [id |-> 2, name |-> << "Carlos" >>] >>,
       assigned |-> << [userId |-> 1, taskIds |-> {1, 2}],
                       [userId |-> 2, taskIds |-> {1, 2}] >>] }

\* the assignment rows of a team on a task table: one row per user and
\* task of the team's plan that the table holds, plan after plan
AssignmentRows(team, taskTable) ==
    LET planned(k) == team.assigned[k].taskIds \cap (1..Len(taskTable))
        RECURSIVE offset(_)
        offset(k) == IF k = 1 THEN 0
                     ELSE offset(k - 1) + Cardinality(planned(k - 1))
        total == IF team.assigned = <<>> THEN 0
                 ELSE offset(Len(team.assigned))
                          + Cardinality(planned(Len(team.assigned)))
        planOf(n) == CHOOSE k \in 1..Len(team.assigned) :
                         offset(k) < n /\ n <= offset(k) + Cardinality(planned(k))
        taskOf(n) == CHOOSE i \in planned(planOf(n)) :
                         Cardinality({j \in planned(planOf(n)) : j <= i})
                             = n - offset(planOf(n))
    IN  [n \in 1..total |->
            [id |-> n, taskId |-> taskOf(n),
             userId |-> team.assigned[planOf(n)].userId]]

\* the databases the query specification starts on
QueryDatabases ==
    {[tasks |-> TaskTable(layout),
      users |-> team.users,
      taskAssignments |-> AssignmentRows(team, TaskTable(layout))] :
        layout \in StatusLayouts, team \in Teams}

\* the messages of the query specification: one keyword of each query
QueryMessages ==
    { <<"E", "s", "t", "a", "d", "o">>,
      <<"r", "e", "s", "u", "m", "e", "n">>,
      <<"b", "l", "o", "q", "u", "e", "a", "d", "a", "s">>,
      <<"b", "u", "s", "y">> }

\* the most tasks and assignment rows ever inserted in a run of the
\* repository operations
MaxTaskId == 2
MaxAssignmentId == 1

\* user tables the repository operations run on: no user; two users; a
\* user whose name is the empty string; two users of the same name
UserTables ==
    { <<>>,
      << [id |-> 1, name |-> <<"A", "n", "a">>],
         [id |-> 2, name |-> <<"C", "a", "r", "l", "o", "s">>] >>,
      << [id |-> 1, name |-> <<>>],
         [id |-> 2, name |-> <<"A", "n", "a">>] >>,
      << [id |-> 1, name |-> <<"A", "n", "a">>],
         [id |-> 2, name |-> <<"A", "n", "a">>] >> }

\* the userIds of a CreateTaskDTO or UpdateTaskDTO; 3 is the id of no user
UserIdLists == { <<>>, <<1>>, <<2>>, <<1, 2>>, <<3>> }


(***************************************************************************)
(* State.                                                                  *)
(*   tasks, users, taskAssignments  the tables of the database             *)
(*   taskIdSeq   the next value of the task table's autoincrement id       *)
(*   assignmentIdSeq  the same for the taskAssignment table                *)
(*   performed   history: the kinds of write that have succeeded on the    *)
(*               task table ("create", "update", "delete")                 *)
(*   now         the clock new Date() reads                                *)
(*   call        per caller, the processMessage invocation it has made:    *)
(*     pc          "idle", "awaiting" (suspended in an await of a          *)
(*                 collaborator call) or "done"                            *)
(*     messageData the ChatMessageDTO passed in                            *)
(*     message, timestamp, handler, title   the locals of processMessage   *)
(*                 and of the handler it dispatched to                     *)
(*     random      << the index Math.random gave >>, <<>> when not drawn   *)
(*     sent        the collaborator calls made so far, in order            *)
(*     reply       what the collaborator gave back, each with the instant  *)
(*     outcome     <<>> while running, then the value returned or the      *)
(*                 error thrown to the caller                              *)
(*   http        per caller, the request it has made to ChatController:    *)
(*     pc          "idle", "awaiting" (the use case) or "sent"             *)
(*     body        req.body                                                *)
(*     invoked     the arguments of the invocations of the use case        *)
(*     status, json  what res.status and res.json were given               *)
(*   result      <<>>, or << r >> once a client has called TaskRepository  *)
(*               or TaskUseCase and the call is over:                      *)
(*     op, id      the method called and its id argument                   *)
(*     data        the UpdateTaskDTO, for an update                        *)
(*     outcome     the value returned or the error thrown                  *)
(*     before      the tables task and taskAssignment before the call      *)
(*   provider    the state of the frontend's TaskProvider:                 *)
(*     tasks, people, loading, error   its useReducer and useState values; *)
(*                 error is <<>> for null                                  *)
(*     pending     the operations suspended in the await of their API      *)
(*                 call, in the order they were started                    *)
(***************************************************************************)
VARIABLES tasks, users, taskAssignments, taskIdSeq, assignmentIdSeq,
          performed, now, call, http, result, provider

vars == << tasks, users, taskAssignments, taskIdSeq, assignmentIdSeq,
          performed, now, call, http, result, provider >>

\* the caller of the sequential specification
SeqCallers == {1}

\* the callers of the concurrent specification
Callers == {1, 2}

\* TaskProvider as constructed: useReducer(reducer, []), useState([]),
\* useState(false), useState(null), and no operation started
IdleProvider ==
    [tasks |-> <<>>, people |-> <<>>, loading |-> FALSE, error |-> <<>>,
     pending |-> <<>>]

IdleRequest ==
    [pc |-> "idle", body |-> <<>>, invoked |-> <<>>, status |-> 0,
     json |-> <<>>]

IdleCall ==
    [pc |-> "idle", messageData |-> <<>>, message |-> <<>>, timestamp |-> 0,
     handler |-> "none", title |-> <<>>, random |-> <<>>, sent |-> <<>>,
     reply |-> <<>>, outcome |-> <<>>]

Returned(c, response) ==
    [c EXCEPT !.pc = "done",
              !.outcome = << [kind |-> "return", value |-> response] >>]

Awaiting(c, op, args) ==
    [c EXCEPT !.pc = "awaiting",
              !.sent = Append(c.sent, [op |-> op, args |-> args])]

\* handleTaskCreation that creates a task titled by the whole message when
\* no pattern matched
handleTaskCreationAlwaysCreates(c) ==
    LET match == titleMatch(c.message)
        title == IF match # <<>> THEN trim(match[1]) ELSE trim(c.message)
    IN  Awaiting([c EXCEPT !.title = << title >>], "create",
                 [title |-> title,
                  description |-> << "Tarea creada por el asistente IA" >>,
                  status |-> "Created"])

\* handleTaskCreation up to its await (lines 260-275), or to its return when
\* no pattern matched (lines 298-306)
handleTaskCreation(c) ==
    LET match == titleMatch(c.message)
        title == trim(match[1])
    IN  IF match # <<>>
        THEN Awaiting([c EXCEPT !.title = << title >>], "create",
                      [title |-> title,
                       description |-> << "Tarea creada por el asistente IA" >>,
                       status |-> "Created"])
        ELSE Returned(c, NoTitleResponse(c.timestamp))

\* handleStatusQuery up to its await (line 311)
handleStatusQuery(c) == Awaiting(c, "getTasksSummary", <<>>)

\* handleBlockedTasksQuery up to its await (line 350)
handleBlockedTasksQuery(c) == Awaiting(c, "getTasksSummary", <<>>)

\* handleBusyUserQuery up to its await (line 401)
handleBusyUserQuery(c) == Awaiting(c, "getUserStats", <<>>)

\* handleGeneralQuery (lines 447-464); r is the random index
handleGeneralQuery(c, r) ==
    Returned([c EXCEPT !.random = << r >>], GeneralResponse(r, c.timestamp))

\* processMessage that sends a message of context 'help' to the general
\* handler whatever its text
processMessageByContext(messageData, r, clock) ==
    LET message == toLowerCase(messageData.message)
        c == [IdleCall EXCEPT !.messageData = messageData,
                              !.message = message,
                              !.timestamp = clock,
                              !.handler =
                                  IF "context" \in DOMAIN messageData
                                     /\ messageData.context = << "help" >>
                                  THEN "handleGeneralQuery"
                                  ELSE Route(message)]
    IN  CASE c.handler = "handleTaskCreation" -> handleTaskCreation(c)
          [] c.handler = "handleStatusQuery" -> handleStatusQuery(c)
          [] c.handler = "handleBlockedTasksQuery" -> handleBlockedTasksQuery(c)
          [] c.handler = "handleBusyUserQuery" -> handleBusyUserQuery(c)
          [] OTHER -> handleGeneralQuery(c, r)

\* processMessage, lines 217-238: lowercase, stamp, dispatch
processMessage(messageData, r, clock) ==
    LET message == toLowerCase(messageData.message)
        c == [IdleCall EXCEPT !.messageData = messageData,
                              !.message = message,
                              !.timestamp = clock,
                              !.handler = Route(message)]
    IN  CASE c.handler = "handleTaskCreation" -> handleTaskCreation(c)
          [] c.handler = "handleStatusQuery" -> handleStatusQuery(c)
          [] c.handler = "handleBlockedTasksQuery" -> handleBlockedTasksQuery(c)
          [] c.handler = "handleBusyUserQuery" -> handleBusyUserQuery(c)
          [] OTHER -> handleGeneralQuery(c, r)

Replied(c, reply, clock) ==
    [c EXCEPT !.reply = Append(c.reply, [at |-> clock] @@ reply)]

\* afterCreateResolved reading the title from a field every invocation
\* writes, instead of from its own local
afterCreateResolvedSharedTitle(c, task) ==
    LET writers == {p \in Callers : call[p].title # <<>>}
        last == CHOOSE p \in writers : \A q \in writers : q <= p
    IN  Returned(c, TaskCreatedResponse(call[last].title[1], task, c.timestamp))

\* handleTaskCreation after create resolved (lines 277-289)
afterCreateResolved(c, task) ==
    Returned(c, TaskCreatedResponse(c.title[1], task, c.timestamp))

\* afterCreateRejected that calls create again instead of reporting
afterCreateRejectedRetry(c, error) ==
    Awaiting(c, "create", c.sent[Len(c.sent)].args)

\* handleTaskCreation after create rejected: the catch block (lines 290-295)
afterCreateRejected(c, error) ==
    Returned(c, TaskCreationFailedResponse(c.title[1], error, c.timestamp))

\* the status and blocked handlers after getTasksSummary resolved
afterSummaryResolved(c, summary) ==
    IF c.handler = "handleStatusQuery"
    THEN Returned(c, StatusResponse(summary, c.timestamp))
    ELSE Returned(c, BlockedResponse(summary, c.timestamp))

\* afterSummaryRejected without the try/catch: the error reaches the caller
afterSummaryRejectedUncaught(c, error) ==
    [c EXCEPT !.pc = "done",
              !.outcome = << [kind |-> "throw", error |-> error] >>]

\* the catch blocks of the status and blocked handlers
afterSummaryRejected(c, error) ==
    IF c.handler = "handleStatusQuery"
    THEN Returned(c, StatusFailedResponse(error, c.timestamp))
    ELSE Returned(c, BlockedFailedResponse(error, c.timestamp))

\* handleBusyUserQuery after getUserStats resolved
afterStatsResolved(c, userStats) ==
    Returned(c, BusyUserResponse(userStats, c.timestamp))

\* the catch block of handleBusyUserQuery
afterStatsRejected(c, error) ==
    Returned(c, BusyUserFailedResponse(error, c.timestamp))

PendingOp(c) == IF c.pc = "awaiting" THEN c.sent[Len(c.sent)].op ELSE "none"

(***************************************************************************)
(* Actions.                                                                *)
(***************************************************************************)
Init ==
    /\ \E db \in SampleDatabases :
          /\ tasks = db.tasks
          /\ users = db.users
          /\ taskAssignments = db.taskAssignments
          /\ taskIdSeq = Len(db.tasks) + 1
          /\ assignmentIdSeq = Len(db.taskAssignments) + 1
    /\ performed = {}
    /\ now = 0
    /\ call = [p \in Callers |-> IdleCall]
    /\ http = [p \in Callers |-> IdleRequest]
    /\ result = <<>>
    /\ provider = IdleProvider

\* caller p invokes chatUseCase.processMessage(messageData); the invocation
\* runs to its first await or to its return
ProcessMessage(p, messageData, r) ==
    /\ call[p].pc = "idle"
    /\ call' = [call EXCEPT ![p] = processMessage(messageData, r, now)]
    /\ UNCHANGED << tasks, users, taskAssignments, taskIdSeq, assignmentIdSeq,
                   performed, now, http, result, provider >>

\* TaskRepository.create resolves: the row is inserted, the created task is
\* returned and the handler runs to its return
CreateResolves(p) ==
    /\ PendingOp(call[p]) = "create"
    /\ LET taskData == call[p].sent[Len(call[p].sent)].args
           row == NewTaskRow(taskData, taskIdSeq, now)
           task == mapToResponseDTO(row, users, taskAssignments)
       IN  /\ tasks' = Append(tasks, row)
           /\ taskIdSeq' = taskIdSeq + 1
           /\ performed' = performed \cup {"create"}
           /\ call' = [call EXCEPT ![p] =
                  afterCreateResolved(
                      Replied(call[p], [ok |-> TRUE, value |-> task], now),
                      task)]
    /\ UNCHANGED << users, taskAssignments, assignmentIdSeq, now, http, result, provider >>

\* TaskRepository.create rejects: nothing is inserted
CreateRejects(p, error) ==
    /\ PendingOp(call[p]) = "create"
    /\ call' = [call EXCEPT ![p] =
           afterCreateRejected(
               Replied(call[p], [ok |-> FALSE, error |-> error], now), error)]
    /\ UNCHANGED << tasks, users, taskAssignments, taskIdSeq, assignmentIdSeq,
                   performed, now, http, result, provider >>

\* ChatRepository.getTasksSummary resolves with the summary of the tables
SummaryResolves(p) ==
    /\ PendingOp(call[p]) = "getTasksSummary"
    /\ LET summary == getTasksSummary(tasks, users, taskAssignments)
       IN  call' = [call EXCEPT ![p] =
               afterSummaryResolved(
                   Replied(call[p], [ok |-> TRUE, value |-> summary], now),
                   summary)]
    /\ UNCHANGED << tasks, users, taskAssignments, taskIdSeq, assignmentIdSeq,
                   performed, now, http, result, provider >>

SummaryRejects(p, error) ==
    /\ PendingOp(call[p]) = "getTasksSummary"
    /\ call' = [call EXCEPT ![p] =
           afterSummaryRejected(
               Replied(call[p], [ok |-> FALSE, error |-> error], now), error)]
    /\ UNCHANGED << tasks, users, taskAssignments, taskIdSeq, assignmentIdSeq,
                   performed, now, http, result, provider >>

\* ChatRepository.getUserStats resolves with the statistics of the tables
StatsResolves(p) ==
    /\ PendingOp(call[p]) = "getUserStats"
    /\ LET userStats == getUserStats(tasks, users, taskAssignments)
       IN  call' = [call EXCEPT ![p] =
               afterStatsResolved(
                   Replied(call[p], [ok |-> TRUE, value |-> userStats], now),
                   userStats)]
    /\ UNCHANGED << tasks, users, taskAssignments, taskIdSeq, assignmentIdSeq,
                   performed, now, http, result, provider >>

StatsRejects(p, error) ==
    /\ PendingOp(call[p]) = "getUserStats"
    /\ call' = [call EXCEPT ![p] =
           afterStatsRejected(
               Replied(call[p], [ok |-> FALSE, error |-> error], now), error)]
    /\ UNCHANGED << tasks, users, taskAssignments, taskIdSeq, assignmentIdSeq,
                   performed, now, http, result, provider >>

\* time passes while a collaborator call is in flight
Tick ==
    /\ now < MaxClock
    /\ \E p \in Callers : call[p].pc = "awaiting"
    /\ now' = now + 1
    /\ UNCHANGED << tasks, users, taskAssignments, taskIdSeq, assignmentIdSeq,
                   performed, call, http, result, provider >>

\* one caller, every message
Next ==
    \/ \E p \in SeqCallers, m \in Messages, r \in 0..2 :
          ProcessMessage(p, [message |-> m], r)
    \/ \E p \in SeqCallers : CreateResolves(p)
    \/ \E p \in SeqCallers, e \in CollaboratorErrors : CreateRejects(p, e)
    \/ \E p \in SeqCallers : SummaryResolves(p)
    \/ \E p \in SeqCallers, e \in CollaboratorErrors : SummaryRejects(p, e)
    \/ \E p \in SeqCallers : StatsResolves(p)
    \/ \E p \in SeqCallers, e \in CollaboratorErrors : StatsRejects(p, e)
    \/ Tick

Spec == Init /\ [][Next]_vars

\* two callers whose invocations interleave at their awaits
NextConcurrent ==
    \/ \E p \in Callers, m \in ConcMessages, r \in 0..2 :
          ProcessMessage(p, [message |-> m], r)
    \/ \E p \in Callers : CreateResolves(p)
    \/ \E p \in Callers, e \in CollaboratorErrors : CreateRejects(p, e)
    \/ \E p \in Callers : SummaryResolves(p)
    \/ \E p \in Callers, e \in CollaboratorErrors : SummaryRejects(p, e)
    \/ \E p \in Callers : StatsResolves(p)
    \/ \E p \in Callers, e \in CollaboratorErrors : StatsRejects(p, e)

SpecConcurrent == Init /\ [][NextConcurrent]_vars

\* two callers, every message with and without the optional fields
NextFields ==
    \/ \E p \in Callers, d \in FieldMessageData, r \in 0..2 :
          ProcessMessage(p, d, r)
    \/ \E p \in Callers : CreateResolves(p)
    \/ \E p \in Callers, e \in CollaboratorErrors : CreateRejects(p, e)
    \/ \E p \in Callers : SummaryResolves(p)
    \/ \E p \in Callers, e \in CollaboratorErrors : SummaryRejects(p, e)
    \/ \E p \in Callers : StatsResolves(p)
    \/ \E p \in Callers, e \in CollaboratorErrors : StatsRejects(p, e)

SpecFields == Init /\ [][NextFields]_vars

(***************************************************************************)
(* ChatController.                                                         *)
(***************************************************************************)
\* typeof v
TypeOf(v) == IF v.type = "null" THEN "object" ELSE v.type

\* Falsy that holds of undefined and null only
FalsyNullish(v) == v.type \in {"undefined", "null"}

\* !v
Falsy(v) ==
    \/ v.type \in {"undefined", "null"}
    \/ v.type = "number" /\ v.value = << "0" >>
    \/ v.type = "boolean" /\ v.value = << "false" >>
    \/ v.type = "string" /\ v.value = <<>>

\* ChatController.processMessage up to its await: a message that is falsy
\* or not a string is answered 400; otherwise the use case is invoked
\* and runs to its first await or to its return
ControllerReceives(p, body, r) ==
    /\ http[p].pc = "idle"
    /\ call[p].pc = "idle"
    /\ IF Falsy(body.message) \/ TypeOf(body.message) # "string"
       THEN /\ http' = [http EXCEPT ![p] =
                   [IdleRequest EXCEPT
                       !.pc = "sent", !.body = body, !.status = 400,
                       !.json = << [error |-> << "Message is required" >>] >>]]
            /\ UNCHANGED call
       ELSE LET messageData == [message |-> body.message.value,
                                userId |-> body.userId,
                                context |-> body.context]
            IN  /\ http' = [http EXCEPT ![p] =
                       [IdleRequest EXCEPT
                           !.pc = "awaiting", !.body = body,
                           !.invoked = << messageData >>]]
                /\ call' = [call EXCEPT ![p] =
                       processMessage(messageData, r, now)]
    /\ UNCHANGED << tasks, users, taskAssignments, taskIdSeq, assignmentIdSeq,
                    performed, now, result, provider >>

\* ChatController.processMessage after its await: res.json(response), or
\* the catch block when the use case threw
ControllerSends(p) ==
    /\ http[p].pc = "awaiting"
    /\ call[p].pc = "done"
    /\ http' = [http EXCEPT ![p] =
           IF call[p].outcome[1].kind = "return"
           THEN [@ EXCEPT !.pc = "sent", !.status = 200,
                          !.json = << call[p].outcome[1].value >>]
           ELSE [@ EXCEPT !.pc = "sent", !.status = 500,
                          !.json = << [error |-> << "Internal server error" >>,
                                       message |->
                                           ErrorText(call[p].outcome[1].error)] >>]]
    /\ UNCHANGED << tasks, users, taskAssignments, taskIdSeq, assignmentIdSeq,
                    performed, now, call, result, provider >>

\* one request to POST /api/chat, every body
NextController ==
    \/ \E p \in SeqCallers, body \in RequestBodies, r \in 0..2 :
          ControllerReceives(p, body, r)
    \/ \E p \in SeqCallers : ControllerSends(p)
    \/ \E p \in SeqCallers : CreateResolves(p)
    \/ \E p \in SeqCallers, e \in CollaboratorErrors : CreateRejects(p, e)
    \/ \E p \in SeqCallers : SummaryResolves(p)
    \/ \E p \in SeqCallers, e \in CollaboratorErrors : SummaryRejects(p, e)
    \/ \E p \in SeqCallers : StatsResolves(p)
    \/ \E p \in SeqCallers, e \in CollaboratorErrors : StatsRejects(p, e)

SpecController == Init /\ [][NextController]_vars

\* the state before the first request, on a database of QueryDatabases
InitQueries ==
    /\ \E db \in QueryDatabases :
          /\ tasks = db.tasks
          /\ users = db.users
          /\ taskAssignments = db.taskAssignments
          /\ taskIdSeq = Len(db.tasks) + 1
          /\ assignmentIdSeq = Len(db.taskAssignments) + 1
    /\ performed = {}
    /\ now = 0
    /\ call = [p \in Callers |-> IdleCall]
    /\ http = [p \in Callers |-> IdleRequest]
    /\ result = <<>>
    /\ provider = IdleProvider

\* one caller, the query messages
NextQueries ==
    \/ \E p \in SeqCallers, m \in QueryMessages :
          ProcessMessage(p, [message |-> m], 0)
    \/ \E p \in SeqCallers : SummaryResolves(p)
    \/ \E p \in SeqCallers, e \in CollaboratorErrors : SummaryRejects(p, e)
    \/ \E p \in SeqCallers : StatsResolves(p)
    \/ \E p \in SeqCallers, e \in CollaboratorErrors : StatsRejects(p, e)

SpecQueries == InitQueries /\ [][NextQueries]_vars

\* one caller, the probes of the title extraction
NextExtraction ==
    \/ \E p \in SeqCallers, m \in ExtractionMessages :
          ProcessMessage(p, [message |-> m], 0)
    \/ \E p \in SeqCallers : CreateResolves(p)
    \/ \E p \in SeqCallers, e \in CollaboratorErrors : CreateRejects(p, e)

SpecExtraction == Init /\ [][NextExtraction]_vars

(***************************************************************************)
(* The operations of TaskRepository, called directly on the store.         *)
(***************************************************************************)
\* every id of userIds is the id of a stored user
UsersExist(userIds) ==
    \A k \in 1..Len(userIds) :
        \E u \in 1..Len(users) : users[u].id = userIds[k]

\* assignments: { create: userIds.map(userId => ({ userId })) } for task id
NewAssignmentRows(id, userIds) ==
    [k \in 1..Len(userIds) |->
        [id |-> assignmentIdSeq + k - 1, taskId |-> id, userId |-> userIds[k]]]

\* the assignment rows that are not of task id
AssignmentsNotOf(id) ==
    SelectSeq(taskAssignments, LAMBDA a : a.taskId # id)

\* TaskRepository.create(taskData): the task row and its assignment rows
\* are inserted together, or prisma rejects (a userId of no user) and
\* nothing is inserted; status is <<>> when taskData has none
RepositoryCreate(status, userIds) ==
    /\ taskIdSeq <= MaxTaskId
    /\ assignmentIdSeq + Len(userIds) - 1 <= MaxAssignmentId
    /\ \A p \in Callers : call[p].pc = "idle"
    /\ UsersExist(userIds)
    /\ tasks' = Append(tasks,
                       NewTaskRow([title |-> << "t" >>,
                                   description |-> <<>>,
                                   status |-> IF status # <<>> THEN status[1]
                                              ELSE "Created"],
                                  taskIdSeq, now))
    /\ taskIdSeq' = taskIdSeq + 1
    /\ taskAssignments' = taskAssignments \o NewAssignmentRows(taskIdSeq, userIds)
    /\ assignmentIdSeq' = assignmentIdSeq + Len(userIds)
    /\ performed' = performed \cup {"create"}
    /\ UNCHANGED << users, now, call, http, result, provider >>

\* the errors prisma rejects a write with
RecordNotFound ==
    [isError |-> TRUE, message |-> << "Record to update not found." >>]
ForeignKeyFailed ==
    [isError |-> TRUE, message |-> << "Foreign key constraint failed" >>]

\* TaskRepository.findById(id): << the task >>, or <<>> for null
findById(id) ==
    IF \E t \in 1..Len(tasks) : tasks[t].id = id
    THEN << mapToResponseDTO(tasks[CHOOSE t \in 1..Len(tasks) : tasks[t].id = id],
                             users, taskAssignments) >>
    ELSE <<>>

\* TaskRepository.update(id, taskData) is carried out: there is such a task
\* and every userId given is the id of a user (userIds is << list >>, <<>>
\* when undefined)
UpdateAccepted(id, userIds) ==
    /\ \E t \in 1..Len(tasks) : tasks[t].id = id
    /\ userIds # <<>> => UsersExist(userIds[1])

\* TaskRepository.update(id, taskData): when userIds is given
\* taskAssignment.deleteMany runs first; then task.update sets the status,
\* when one is given, and creates the new assignments, or rejects (no such
\* task, a userId of no user) and changes nothing more.  The tables after
\* the call.
TaskRepositoryUpdate(id, status, userIds) ==
    LET kept == IF userIds # <<>> THEN AssignmentsNotOf(id) ELSE taskAssignments
        added == IF userIds # <<>> THEN userIds[1] ELSE <<>>
    IN  IF UpdateAccepted(id, userIds)
        THEN [tasks |-> [t \in 1..Len(tasks) |->
                            IF tasks[t].id = id /\ status # <<>>
                            THEN [tasks[t] EXCEPT !.status = status[1]]
                            ELSE tasks[t]],
              taskAssignments |-> kept \o NewAssignmentRows(id, added),
              assignmentIdSeq |-> assignmentIdSeq + Len(added)]
        ELSE [tasks |-> tasks,
              taskAssignments |-> kept,
              assignmentIdSeq |-> assignmentIdSeq]

\* what TaskRepository.update(id, taskData) gives its caller: the updated
\* task as read back from the tables after the call, or the rejection of
\* prisma.task.update
UpdateOutcome(id, status, userIds) ==
    LET after == TaskRepositoryUpdate(id, status, userIds)
    IN  IF UpdateAccepted(id, userIds)
        THEN [kind |-> "return",
              value |-> << mapToResponseDTO(
                               after.tasks[CHOOSE t \in 1..Len(after.tasks) :
                                               after.tasks[t].id = id],
                               users, after.taskAssignments) >>]
        ELSE [kind |-> "throw",
              error |-> IF \E t \in 1..Len(tasks) : tasks[t].id = id
                        THEN ForeignKeyFailed
                        ELSE RecordNotFound]

\* TaskRepository.delete(id) removes the task: there is such a task, and
\* the relation cascades or the task has no assignment
DeleteAccepted(id, cascades) ==
    /\ \E t \in 1..Len(tasks) : tasks[t].id = id
    /\ cascades \/ AssignmentsNotOf(id) = taskAssignments

\* TaskRepository.delete(id): task.delete removes the row, and with it the
\* assignment rows of the task when the relation cascades; when it does not
\* cascade and the task has assignments, or when there is no such task,
\* prisma rejects and delete returns false.  The tables after the call.
TaskRepositoryDelete(id, cascades) ==
    IF DeleteAccepted(id, cascades)
    THEN [tasks |-> SelectSeq(tasks, LAMBDA t : t.id # id),
          taskAssignments |-> AssignmentsNotOf(id)]
    ELSE [tasks |-> tasks, taskAssignments |-> taskAssignments]

\* TaskRepository.update called by a client of the store
RepositoryUpdate(id, status, userIds) ==
    /\ assignmentIdSeq + (IF userIds # <<>> THEN Len(userIds[1]) ELSE 0) - 1
           <= MaxAssignmentId
    /\ \A p \in Callers : call[p].pc = "idle"
    /\ LET after == TaskRepositoryUpdate(id, status, userIds)
       IN  /\ tasks' = after.tasks
           /\ taskAssignments' = after.taskAssignments
           /\ assignmentIdSeq' = after.assignmentIdSeq
    /\ performed' = IF UpdateAccepted(id, userIds)
                    THEN performed \cup {"update"}
                    ELSE performed
    /\ UNCHANGED << users, taskIdSeq, now, call, http, result, provider >>

\* TaskRepository.delete called by a client of the store
RepositoryDelete(id, cascades) ==
    /\ \A p \in Callers : call[p].pc = "idle"
    /\ LET after == TaskRepositoryDelete(id, cascades)
       IN  /\ tasks' = after.tasks
           /\ taskAssignments' = after.taskAssignments
    /\ performed' = IF DeleteAccepted(id, cascades)
                    THEN performed \cup {"delete"}
                    ELSE performed
    /\ UNCHANGED << users, taskIdSeq, assignmentIdSeq, now, call, http,
                    result, provider >>

\* the store starts with some users and no task
InitRepository ==
    /\ tasks = <<>>
    /\ users \in UserTables
    /\ taskAssignments = <<>>
    /\ taskIdSeq = 1
    /\ assignmentIdSeq = 1
    /\ performed = {}
    /\ now = 0
    /\ call = [p \in Callers |-> IdleCall]
    /\ http = [p \in Callers |-> IdleRequest]
    /\ result = <<>>
    /\ provider = IdleProvider

\* any sequence of creations, updates and deletions
NextRepository ==
    \/ \E s \in {<<>>} \cup {<< x >> : x \in Statuses}, ids \in UserIdLists :
          RepositoryCreate(s, ids)
    \/ \E id \in 1..taskIdSeq,
          s \in {<<>>} \cup {<< x >> : x \in Statuses},
          ids \in {<<>>} \cup {<< x >> : x \in UserIdLists} :
          RepositoryUpdate(id, s, ids)
    \/ \E id \in 1..taskIdSeq, cascades \in BOOLEAN :
          RepositoryDelete(id, cascades)

SpecRepository == InitRepository /\ [][NextRepository]_vars

(***************************************************************************)
(* Single calls of TaskRepository and of TaskUseCase by one client, with   *)
(* what the call gave its caller kept in result.  The use case awaits      *)
(* findById and then update or delete; with one client nothing runs in     *)
(* between, so a call is one step.                                         *)
(***************************************************************************)
\* new Error(`Task with id ${id} not found`)
TaskNotFound(id) ==
    [isError |-> TRUE,
     message |-> << "Task with id " >> \o NumToStr(id) \o << " not found" >>]

\* new Error(`Failed to update task with id ${id}`)
UpdateFailed(id) ==
    [isError |-> TRUE,
     message |-> << "Failed to update task with id " >> \o NumToStr(id)]

\* getTaskById that resolves to null when there is no such task
getTaskByIdOrNull(id) ==
    [kind |-> "return", value |-> findById(id)]

\* TaskUseCase.getTaskById(id): what the call gives its caller
getTaskById(id) ==
    IF findById(id) = <<>>
    THEN [kind |-> "throw", error |-> TaskNotFound(id)]
    ELSE [kind |-> "return", value |-> findById(id)]

\* TaskUseCase.updateTask(id, taskData): the tables after the call and what
\* it gives its caller; a rejection of taskRepository.update is not caught
updateTask(id, status, userIds) ==
    IF findById(id) = <<>>
    THEN [tasks |-> tasks,
          taskAssignments |-> taskAssignments,
          assignmentIdSeq |-> assignmentIdSeq,
          outcome |-> [kind |-> "throw", error |-> TaskNotFound(id)]]
    ELSE LET after == TaskRepositoryUpdate(id, status, userIds)
             updatedTask == UpdateOutcome(id, status, userIds)
         IN  [tasks |-> after.tasks,
              taskAssignments |-> after.taskAssignments,
              assignmentIdSeq |-> after.assignmentIdSeq,
              outcome |-> IF updatedTask.kind = "return"
                             /\ updatedTask.value = <<>>
                          THEN [kind |-> "throw", error |-> UpdateFailed(id)]
                          ELSE updatedTask]

\* TaskUseCase.deleteTask(id): the tables after the call and what it gives
\* its caller
deleteTask(id, cascades) ==
    IF findById(id) = <<>>
    THEN [tasks |-> tasks,
          taskAssignments |-> taskAssignments,
          outcome |-> [kind |-> "throw", error |-> TaskNotFound(id)]]
    ELSE LET after == TaskRepositoryDelete(id, cascades)
             deleted == DeleteAccepted(id, cascades)
         IN  [tasks |-> after.tasks,
              taskAssignments |-> after.taskAssignments,
              outcome |->
                  [kind |-> "return",
                   value |-> << [success |-> deleted,
                                 message |->
                                     IF deleted
                                     THEN << "Task deleted successfully" >>
                                     ELSE << "Failed to delete task" >>] >>]]

\* what result keeps of a call: the operation and its arguments, what it
\* gave its caller, and the tables it started on
CallRecord(op, id, data, outcome) ==
    << [op |-> op, id |-> id, data |-> data, outcome |-> outcome,
        before |-> [tasks |-> tasks, taskAssignments |-> taskAssignments]] >>

\* the client calls taskRepository.update(id, taskData)
CallRepositoryUpdate(id, status, userIds) ==
    /\ result = <<>>
    /\ LET after == TaskRepositoryUpdate(id, status, userIds)
       IN  /\ tasks' = after.tasks
           /\ taskAssignments' = after.taskAssignments
           /\ assignmentIdSeq' = after.assignmentIdSeq
    /\ performed' = IF UpdateAccepted(id, userIds)
                    THEN performed \cup {"update"}
                    ELSE performed
    /\ result' = CallRecord("TaskRepository.update", id,
                            [status |-> status, userIds |-> userIds],
                            UpdateOutcome(id, status, userIds))
    /\ UNCHANGED << users, taskIdSeq, now, call, http, provider >>

\* the client calls taskUseCase.getTaskById(id)
CallGetTaskById(id) ==
    /\ result = <<>>
    /\ result' = CallRecord("TaskUseCase.getTaskById", id, <<>>,
                            getTaskById(id))
    /\ UNCHANGED << tasks, users, taskAssignments, taskIdSeq,
                    assignmentIdSeq, performed, now, call, http, provider >>

\* the client calls taskUseCase.updateTask(id, taskData)
CallUpdateTask(id, status, userIds) ==
    /\ result = <<>>
    /\ LET after == updateTask(id, status, userIds)
       IN  /\ tasks' = after.tasks
           /\ taskAssignments' = after.taskAssignments
           /\ assignmentIdSeq' = after.assignmentIdSeq
           /\ performed' = IF after.outcome.kind = "return"
                           THEN performed \cup {"update"}
                           ELSE performed
           /\ result' = CallRecord("TaskUseCase.updateTask", id,
                                   [status |-> status, userIds |-> userIds],
                                   after.outcome)
    /\ UNCHANGED << users, taskIdSeq, now, call, http, provider >>

\* the client calls taskUseCase.deleteTask(id); cascades is whether the
\* relation of the assignments to their task deletes them with it
CallDeleteTask(id, cascades) ==
    /\ result = <<>>
    /\ LET after == deleteTask(id, cascades)
       IN  /\ tasks' = after.tasks
           /\ taskAssignments' = after.taskAssignments
           /\ performed' = IF after.tasks # tasks
                           THEN performed \cup {"delete"}
                           ELSE performed
           /\ result' = CallRecord("TaskUseCase.deleteTask", id,
                                   [cascades |-> cascades], after.outcome)
    /\ UNCHANGED << users, taskIdSeq, assignmentIdSeq, now, call, http, provider >>

\* one call, on the ids of the stored tasks and on the next id, which is
\* the id of no task
NextCalls ==
    \/ \E id \in 1..taskIdSeq,
          s \in {<<>>} \cup {<< x >> : x \in Statuses},
          ids \in {<<>>} \cup {<< x >> : x \in UserIdLists} :
          CallRepositoryUpdate(id, s, ids)
    \/ \E id \in 1..taskIdSeq : CallGetTaskById(id)
    \/ \E id \in 1..taskIdSeq,
          s \in {<<>>} \cup {<< x >> : x \in Statuses},
          ids \in {<<>>} \cup {<< x >> : x \in UserIdLists} :
          CallUpdateTask(id, s, ids)
    \/ \E id \in 1..taskIdSeq, cascades \in BOOLEAN : CallDeleteTask(id, cascades)

SpecCalls == Init /\ [][NextCalls]_vars

(***************************************************************************)
(* The frontend's TaskProvider.  Its operations run on the one thread of   *)
(* the page: each runs to the await of its API call, and its continuation  *)
(* runs when the call settles, whatever was started in between.  The API   *)
(* answers are inputs.                                                     *)
(***************************************************************************)
\* the most operations in flight at once
MaxPending == 2

\* the rows GET /api/tasks answers with: those of the sample database
ApiRows ==
    LET db == CHOOSE d \in SampleDatabases : d.tasks # <<>>
    IN  [t \in 1..Len(db.tasks) |->
            mapToResponseDTO(db.tasks[t], db.users, db.taskAssignments)]

\* what getTasks() resolves to
GetTasksResponses == { <<>>, SubSeq(ApiRows, 1, 2), ApiRows }

\* the ids the API gives to created tasks
CreatedIds == {Len(ApiRows) + 1, Len(ApiRows) + 2}

\* the ids the operations on one task are called with
OperationIds == {1, Len(ApiRows) + 1}

\* the taskData of addTask; status is <<>> when it has none
AddTaskData ==
    {[title |-> << "n" >>, description |-> <<>>, status |-> st] :
        st \in { <<>>, << "Blocked" >> }}

\* the data of editTask
EditTaskData ==
    {[title |-> << "e" >>, description |-> << "d" >>, status |-> "InProgress"]}

\* the row the API answers with for the task of this id: a row of ApiRows,
\* or the row of a task created by addTask
ApiRow(id) ==
    IF id \in 1..Len(ApiRows)
    THEN ApiRows[id]
    ELSE [id |-> id, title |-> << "n" >>, description |-> <<>>,
          status |-> "Created", createdAt |-> 0, assignments |-> <<>>]

\* normalize(rows)
normalize(rows) ==
    [i \in 1..Len(rows) |->
        [id |-> rows[i].id,
         title |-> rows[i].title,
         description |-> IF rows[i].description # <<>>
                         THEN rows[i].description[1]
                         ELSE <<>>,
         status |-> rows[i].status,
         assignees |-> [a \in 1..Len(rows[i].assignments) |->
                           rows[i].assignments[a].user.name],
         created_at |-> rows[i].createdAt]]

\* norm.flatMap(t => t.assignees)
RECURSIVE flatAssignees(_)
flatAssignees(norm) ==
    IF norm = <<>> THEN <<>>
    ELSE norm[1].assignees \o flatAssignees(Tail(norm))

\* Array.from(new Set(names)): the names in the order of their first
\* occurrence
UniqueNames(names) ==
    LET first == {i \in 1..Len(names) :
                     \A j \in 1..(i - 1) : names[j] # names[i]}
        nth(n) == CHOOSE i \in first : Cardinality({j \in first : j <= i}) = n
    IN  [n \in 1..Cardinality(first) |-> names[nth(n)]]

\* reducer(state, action)
reducer(state, action) ==
    CASE action.type = "SET" -> action.payload
      [] action.type = "ADD" -> Append(state, action.payload)
      [] action.type = "UPDATE" ->
             [i \in 1..Len(state) |->
                 IF state[i].id = action.payload.id
                 THEN action.payload
                 ELSE state[i]]
      [] action.type = "DELETE" ->
             SelectSeq(state, LAMBDA t : t.id # action.payload)
      [] OTHER -> state

\* the pending operations without the k-th
WithoutPending(k) ==
    [i \in 1..(Len(provider.pending) - 1) |->
        IF i < k THEN provider.pending[i] ELSE provider.pending[i + 1]]

\* an operation up to its await: setLoading(true), setError(null), and the
\* API call is made
OperationStarts(op, args) ==
    /\ Len(provider.pending) < MaxPending
    /\ provider' = [provider EXCEPT
                       !.loading = TRUE,
                       !.error = <<>>,
                       !.pending = Append(provider.pending,
                                          [op |-> op, args |-> args])]
    /\ UNCHANGED << tasks, users, taskAssignments, taskIdSeq,
                    assignmentIdSeq, performed, now, call, http, result >>

\* the continuation of the k-th pending operation after its API call
\* resolved: the dispatch it makes, then finally setLoading(false)
OperationResolves(k, op, action, people) ==
    /\ k \in 1..Len(provider.pending)
    /\ provider.pending[k].op = op
    /\ provider' = [provider EXCEPT
                       !.tasks = reducer(provider.tasks, action),
                       !.people = people,
                       !.loading = FALSE,
                       !.pending = WithoutPending(k)]
    /\ UNCHANGED << tasks, users, taskAssignments, taskIdSeq,
                    assignmentIdSeq, performed, now, call, http, result >>

\* the continuation of the k-th pending operation after its API call
\* rejected: catch sets the error of the operation, finally
\* setLoading(false)
OperationRejects(k) ==
    /\ k \in 1..Len(provider.pending)
    /\ provider' = [provider EXCEPT
                       !.error =
                           CASE provider.pending[k].op = "fetchAll" ->
                                    << "Error cargando tareas" >>
                             [] provider.pending[k].op = "addTask" ->
                                    << "Error creando tarea" >>
                             [] provider.pending[k].op = "updateTaskStatus" ->
                                    << "Error actualizando tarea" >>
                             [] provider.pending[k].op = "editTask" ->
                                    << "Error editando tarea" >>
                             [] provider.pending[k].op = "removeTask" ->
                                    << "Error eliminando tarea" >>,
                       !.loading = FALSE,
                       !.pending = WithoutPending(k)]
    /\ UNCHANGED << tasks, users, taskAssignments, taskIdSeq,
                    assignmentIdSeq, performed, now, call, http, result >>

\* fetchAll(), by the effect on mount or by a consumer of the context
FetchAllStarts == OperationStarts("fetchAll", <<>>)

\* getTasks() resolved to data
FetchAllResolves(k, data) ==
    OperationResolves(k, "fetchAll",
                      [type |-> "SET", payload |-> normalize(data)],
                      UniqueNames(flatAssignees(normalize(data))))

\* addTask(taskData)
AddTaskStarts(taskData) ==
    OperationStarts("addTask",
                    [title |-> taskData.title,
                     description |-> taskData.description,
                     status |-> IF taskData.status # <<>>
                                THEN taskData.status[1]
                                ELSE "Created"])

\* createTask(payload) resolved to the new task, which got this id
AddTaskResolves(k, id) ==
    /\ \A i \in 1..Len(provider.tasks) : provider.tasks[i].id # id
    /\ k \in 1..Len(provider.pending)
    /\ OperationResolves(k, "addTask",
                         [type |-> "ADD",
                          payload |->
                              normalize(<< [ApiRow(id) EXCEPT
                                  !.status = provider.pending[k].args.status]
                                        >>)[1]],
                         provider.people)

\* updateTaskStatus(id, newStatus)
UpdateTaskStatusStarts(id, newStatus) ==
    OperationStarts("updateTaskStatus", [id |-> id, status |-> newStatus])

\* updateTask(id, { status: newStatus }) resolved to the updated task
UpdateTaskStatusResolves(k) ==
    /\ k \in 1..Len(provider.pending)
    /\ OperationResolves(k, "updateTaskStatus",
                         [type |-> "UPDATE",
                          payload |->
                              normalize(<< [ApiRow(provider.pending[k].args.id)
                                  EXCEPT !.status =
                                      provider.pending[k].args.status] >>)[1]],
                         provider.people)

\* editTask(id, data)
EditTaskStarts(id, data) ==
    OperationStarts("editTask",
                    [id |-> id, title |-> data.title,
                     description |-> data.description,
                     status |-> data.status])

\* updateTask(id, payload) resolved to the updated task
EditTaskResolves(k) ==
    /\ k \in 1..Len(provider.pending)
    /\ OperationResolves(k, "editTask",
                         [type |-> "UPDATE",
                          payload |->
                              normalize(<< [ApiRow(provider.pending[k].args.id)
                                  EXCEPT
                                  !.title = provider.pending[k].args.title,
                                  !.description =
                                      << provider.pending[k].args.description >>,
                                  !.status =
                                      provider.pending[k].args.status] >>)[1]],
                         provider.people)

\* removeTask(id)
RemoveTaskStarts(id) == OperationStarts("removeTask", [id |-> id])

\* deleteTask(id) resolved
RemoveTaskResolves(k) ==
    /\ k \in 1..Len(provider.pending)
    /\ OperationResolves(k, "removeTask",
                         [type |-> "DELETE",
                          payload |-> provider.pending[k].args.id],
                         provider.people)

\* the timer of the error effect fires: setError(null)
ErrorTimerFires ==
    /\ provider.error # <<>>
    /\ provider' = [provider EXCEPT !.error = <<>>]
    /\ UNCHANGED << tasks, users, taskAssignments, taskIdSeq,
                    assignmentIdSeq, performed, now, call, http, result >>

\* addPerson(name)
AddPerson(name) ==
    /\ provider' = [provider EXCEPT
                       !.people =
                           IF \E i \in 1..Len(provider.people) :
                                  provider.people[i] = name
                           THEN provider.people
                           ELSE Append(provider.people, name)]
    /\ UNCHANGED << tasks, users, taskAssignments, taskIdSeq,
                    assignmentIdSeq, performed, now, call, http, result >>

\* the provider is mounted: the effect has called fetchAll()
InitFrontend ==
    /\ tasks = <<>>
    /\ users = <<>>
    /\ taskAssignments = <<>>
    /\ taskIdSeq = 1
    /\ assignmentIdSeq = 1
    /\ performed = {}
    /\ now = 0
    /\ call = [p \in Callers |-> IdleCall]
    /\ http = [p \in Callers |-> IdleRequest]
    /\ result = <<>>
    /\ provider = [IdleProvider EXCEPT
                      !.loading = TRUE,
                      !.pending = << [op |-> "fetchAll", args |-> <<>>] >>]

NextFrontend ==
    \/ FetchAllStarts
    \/ \E taskData \in AddTaskData : AddTaskStarts(taskData)
    \/ \E id \in OperationIds : UpdateTaskStatusStarts(id, "Completed")
    \/ \E id \in OperationIds, data \in EditTaskData : EditTaskStarts(id, data)
    \/ \E id \in OperationIds : RemoveTaskStarts(id)
    \/ \E k \in 1..MaxPending, data \in GetTasksResponses :
          FetchAllResolves(k, data)
    \/ \E k \in 1..MaxPending, id \in CreatedIds : AddTaskResolves(k, id)
    \/ \E k \in 1..MaxPending : UpdateTaskStatusResolves(k)
    \/ \E k \in 1..MaxPending : EditTaskResolves(k)
    \/ \E k \in 1..MaxPending : RemoveTaskResolves(k)
    \/ \E k \in 1..MaxPending : OperationRejects(k)
    \/ ErrorTimerFires
    \/ AddPerson(<< "Eva" >>)

SpecFrontend == InitFrontend /\ [][NextFrontend]_vars

(***************************************************************************)
(* Properties.                                                             *)
(***************************************************************************)
\* sub occurs in text as a contiguous run
IsSubstring(sub, text) ==
    \E i \in 0..(Len(text) - Len(sub)) : SubSeq(text, i + 1, i + Len(sub)) = sub

Started(p) == call[p].pc # "idle"

Done(p) == call[p].outcome # <<>>

ReturnedValue(p) == call[p].outcome[1].value

\* the lowercased text of the message caller p passed in
Lowered(p) == toLowerCase(call[p].messageData.message)

\* the collaborator calls of caller p's invocation that were op
SentOps(p, op) == {i \in 1..Len(call[p].sent) : call[p].sent[i].op = op}

\* caller p's collaborator call was answered, and this way
Resolved(p) == call[p].reply # <<>> /\ call[p].reply[1].ok

Rejected(p) == call[p].reply # <<>> /\ ~call[p].reply[1].ok

\* C1: processMessage is total: whatever the collaborators answer, an
\* invocation that has ended has returned a ChatResponseDTO with a response
\* text and a timestamp, never thrown; and the answer of the collaborator it
\* awaits ends it.
C1_ProcessMessageTotal ==
    \A p \in Callers :
        /\ Done(p) =>
              /\ call[p].outcome[1].kind = "return"
              /\ ReturnedValue(p).response # <<>>
              /\ ReturnedValue(p).timestamp \in 0..MaxClock
        /\ Started(p) /\ (call[p].reply # <<>> \/ call[p].sent = <<>>) => Done(p)

\* an invocation whose collaborator call was rejected has returned
C1_Witness ==
    \E p \in Callers :
        Rejected(p) /\ Done(p) /\ call[p].outcome[1].kind = "return"

\* the ordered table of the classifier: handler and keyword list
IntentTable ==
    << [handler |-> "handleTaskCreation", keywords |-> CreateKeywords],
       [handler |-> "handleStatusQuery", keywords |-> StatusKeywords],
       [handler |-> "handleBlockedTasksQuery", keywords |-> BlockedKeywords],
       [handler |-> "handleBusyUserQuery", keywords |-> BusyKeywords] >>

\* the rows of the table having a keyword that is a substring of text
Hits(text) ==
    {n \in 1..Len(IntentTable) :
        \E k \in 1..Len(IntentTable[n].keywords) :
            IsSubstring(IntentTable[n].keywords[k], text)}

FirstMatch(text) ==
    IF Hits(text) = {} THEN "handleGeneralQuery"
    ELSE IntentTable[Min(Hits(text))].handler

\* the collaborator operation a handler calls, "none" for the general one
OperationOf(handler) ==
    CASE handler = "handleTaskCreation" -> "create"
      [] handler = "handleStatusQuery" -> "getTasksSummary"
      [] handler = "handleBlockedTasksQuery" -> "getTasksSummary"
      [] handler = "handleBusyUserQuery" -> "getUserStats"
      [] OTHER -> "none"

\* C2: classification is first-match-wins over CreateTask > StatusQuery >
\* BlockedQuery > BusyUserQuery > General by substring containment in the
\* lowercased message: the handler dispatched, and the collaborator it
\* calls, are those of the first table row with a keyword contained in the
\* message, and the general handler when no row has one.
C2_FirstMatchWins ==
    \A p \in Callers :
        Started(p) =>
            /\ call[p].handler = FirstMatch(Lowered(p))
            /\ \A i \in 1..Len(call[p].sent) :
                  call[p].sent[i].op = OperationOf(FirstMatch(Lowered(p)))
            /\ FirstMatch(Lowered(p)) = "handleGeneralQuery" =>
                  ReturnedValue(p).response \in SeqToSet(GeneralTexts)

\* a message that starts with a status keyword and has a create keyword
\* glued to it, inside one word, is routed to task creation
C2_Witness ==
    \E p \in Callers :
        /\ Started(p)
        /\ call[p].handler = "handleTaskCreation"
        /\ Done(p)
        /\ IsSubstring(StatusKeywords[1] \o kwAdd, Lowered(p))

\* C3: when the message has a create keyword and an extractable title and
\* create resolves, actionTaken is {task_created, the task create returned},
\* the response text contains the extracted title and the id of the created
\* task, and there are exactly three suggestions.
C3_TaskCreated ==
    \A p \in Callers :
        /\ Started(p)
        /\ FirstMatch(Lowered(p)) = "handleTaskCreation"
        /\ titleMatch(Lowered(p)) # <<>>
        /\ Resolved(p)
        => /\ Done(p)
           /\ call[p].outcome[1].kind = "return"
           /\ ReturnedValue(p).actionTaken =
                  << [type |-> "task_created", data |-> call[p].reply[1].value] >>
           /\ IsSubstring(trim(titleMatch(Lowered(p))[1]),
                          ReturnedValue(p).response)
           /\ IsSubstring(NumToStr(call[p].reply[1].value.id),
                          ReturnedValue(p).response)
           /\ Len(ReturnedValue(p).suggestions) = 1
           /\ Len(ReturnedValue(p).suggestions[1]) = 3

\* a creation with a non-empty title has been answered by a created task
C3_Witness ==
    \E p \in Callers :
        /\ Started(p)
        /\ call[p].handler = "handleTaskCreation"
        /\ Resolved(p)
        /\ Done(p)
        /\ Len(call[p].title[1]) >= 2
        /\ call[p].reply[1].value.id >= 2

C5_TitleNonEmpty ==
    \A p \in Callers :
        \A i \in SentOps(p, "create") :
            /\ call[p].sent[i].args.title # <<>>
            /\ call[p].sent[i].args.title = trim(call[p].sent[i].args.title)

\* C6: when create rejects, processMessage returns a response whose text
\* contains the error's message, sets no actionTaken, and has called create
\* exactly once.
C6_CreateFailureReported ==
    \A p \in Callers :
        /\ Started(p)
        /\ call[p].handler = "handleTaskCreation"
        /\ Rejected(p)
        => /\ Done(p)
           /\ call[p].outcome[1].kind = "return"
           /\ IsSubstring(call[p].reply[1].error.message,
                          ReturnedValue(p).response)
           /\ ReturnedValue(p).actionTaken = <<>>
           /\ Cardinality(SentOps(p, "create")) = 1
           /\ Len(call[p].reply) = 1

\* create was rejected for a whitespace-free title and the call is over
C6_Witness ==
    \E p \in Callers :
        /\ Done(p)
        /\ call[p].handler = "handleTaskCreation"
        /\ Rejected(p)
        /\ call[p].title # <<>>
        /\ call[p].title[1] # <<>>

\* C7: one invocation makes at most one collaborator call and never
\* retries: create at most once and only for a creation with a matched
\* title, getTasksSummary at most once and only for status and blocked
\* queries, getUserStats at most once and only for busy-user queries, none
\* for a general message, and never both the Task Directory and the
\* Analytics Aggregator.
C7_AtMostOneAttempt ==
    \A p \in Callers :
        Started(p) =>
            /\ Cardinality(SentOps(p, "create")) <= 1
            /\ Cardinality(SentOps(p, "getTasksSummary")) <= 1
            /\ Cardinality(SentOps(p, "getUserStats")) <= 1
            /\ SentOps(p, "create") # {} =>
                  /\ FirstMatch(Lowered(p)) = "handleTaskCreation"
                  /\ titleMatch(Lowered(p)) # <<>>
            /\ SentOps(p, "getTasksSummary") # {} =>
                  FirstMatch(Lowered(p)) \in
                      {"handleStatusQuery", "handleBlockedTasksQuery"}
            /\ SentOps(p, "getUserStats") # {} =>
                  FirstMatch(Lowered(p)) = "handleBusyUserQuery"
            /\ FirstMatch(Lowered(p)) = "handleGeneralQuery" =>
                  call[p].sent = <<>>
            /\ \/ SentOps(p, "create") = {}
               \/ SentOps(p, "getTasksSummary") \cup SentOps(p, "getUserStats")
                      = {}
            /\ Len(call[p].sent) <= 1

\* an invocation is over after its only collaborator call was rejected
C7_Witness ==
    \E p \in Callers :
        Done(p) /\ Rejected(p) /\ Len(call[p].sent) = 1 /\ now > 0

\* C8: when getTasksSummary or getUserStats rejects inside the status,
\* blocked or busy-user handler, the response returned has no actionTaken
\* and its text contains the error's message; nothing is thrown.
C8_QueryFailureReported ==
    \A p \in Callers :
        /\ Started(p)
        /\ call[p].handler \in {"handleStatusQuery", "handleBlockedTasksQuery",
                                "handleBusyUserQuery"}
        /\ Rejected(p)
        => /\ Done(p)
           /\ call[p].outcome[1].kind = "return"
           /\ ReturnedValue(p).actionTaken = <<>>
           /\ IsSubstring(call[p].reply[1].error.message,
                          ReturnedValue(p).response)

\* a busy-user query whose getUserStats call was rejected
C8_Witness ==
    \E p \in Callers :
        Done(p) /\ call[p].handler = "handleBusyUserQuery" /\ Rejected(p)

\* what the collaborator gave caller p, without the instant it did
Answer(p) == [f \in DOMAIN call[p].reply[1] \ {"at"} |-> call[p].reply[1][f]]

\* C9: invocations do not interfere: under every interleaving of two
\* invocations, a finished creation reports its own title and the id of the
\* task created for it, which is in the task table under that title; two
\* creations have different tasks; and two finished invocations of the same
\* message that got the same answer returned the same response.
C9_NoInterference ==
    \A p \in Callers :
        Done(p) =>
            /\ call[p].outcome[1].kind = "return"
            /\ call[p].handler = "handleTaskCreation" /\ Resolved(p) =>
                  /\ IsSubstring(<< "[ok] He creado la tarea \"" >>
                                     \o trim(titleMatch(Lowered(p))[1])
                                     \o << "\" exitosamente. La tarea tiene el ID " >>
                                     \o NumToStr(call[p].reply[1].value.id),
                                 ReturnedValue(p).response)
                  /\ ReturnedValue(p).actionTaken[1].data = call[p].reply[1].value
                  /\ \E i \in 1..Len(tasks) :
                        /\ tasks[i].id = call[p].reply[1].value.id
                        /\ tasks[i].title = trim(titleMatch(Lowered(p))[1])
            /\ \A q \in Callers \ {p} :
                  /\ Done(q)
                  /\ call[q].messageData = call[p].messageData
                  /\ call[q].reply # <<>>
                  /\ call[p].reply # <<>>
                  /\ Answer(q) = Answer(p)
                  => ReturnedValue(q) = ReturnedValue(p)
            /\ \A q \in Callers \ {p} :
                  /\ Done(q)
                  /\ call[p].handler = "handleTaskCreation" /\ Resolved(p)
                  /\ call[q].handler = "handleTaskCreation" /\ Resolved(q)
                  => call[q].reply[1].value.id # call[p].reply[1].value.id

\* two creations with different titles are both over, and the one of the
\* second caller was served first
C9_Witness ==
    /\ \A p \in Callers :
          Done(p) /\ call[p].handler = "handleTaskCreation" /\ Resolved(p)
    /\ call[1].title # call[2].title
    /\ call[2].reply[1].value.id < call[1].reply[1].value.id

\* C10: the timestamp of the response is the completion instant: it is not
\* earlier than the instant at which the collaborator call of the handler
\* resolved or rejected.
C10_TimestampAtCompletion ==
    \A p \in Callers :
        Done(p) /\ call[p].reply # <<>> =>
            ReturnedValue(p).timestamp >= call[p].reply[Len(call[p].reply)].at

\* C11: the title that is created and echoed back is the title as the user
\* wrote it, letter case preserved: the title passed to create is a span of
\* the original message, and the response to a successful creation contains
\* that span.
C11_TitleAsWritten ==
    \A p \in Callers :
        \A i \in SentOps(p, "create") :
            /\ IsSubstring(call[p].sent[i].args.title,
                           call[p].messageData.message)
            /\ Done(p) /\ Resolved(p) =>
                  /\ ReturnedValue(p).actionTaken[1].type = "task_created"
                  /\ \E a \in 1..Len(call[p].messageData.message) + 1,
                        b \in 0..Len(call[p].messageData.message) :
                        /\ toLowerCase(SubSeq(call[p].messageData.message, a, b))
                               = call[p].sent[i].args.title
                        /\ IsSubstring(SubSeq(call[p].messageData.message, a, b),
                                       ReturnedValue(p).response)

\* the extraction patterns in the order the claim lists them
ExtractionOrder ==
    << [kw |-> kwCrear, kind |-> "quoted"],
       [kw |-> kwCreateEn, kind |-> "quoted"],
       [kw |-> kwNuevaTarea, kind |-> "line"],
       [kw |-> kwNewTask, kind |-> "line"],
       [kw |-> kwAgregar, kind |-> "quoted"],
       [kw |-> kwAdd, kind |-> "quoted"] >>

NoLineBreak(s, a, b) == \A t \in a..b : s[t] \notin LineTerminators

\* the occurrences of keyword kw in s
Occurrences(s, kw) == {i \in 1..Len(s) : OccursAt(s, kw, i)}

\* a quoted span: the positions of two quote characters with at least one
\* character, and no quote character, between them
QuotedSpans(s) ==
    LET quotes == {t \in 1..Len(s) : s[t] \in Quotes}
    IN  {jq \in quotes \X quotes :
            /\ jq[1] + 1 < jq[2]
            /\ \A t \in quotes : ~(jq[1] < t /\ t < jq[2])}

\* keyword at i, quoted span (j, q) after it; sameLine asks that no line
\* break lies between the keyword and the opening quote
QuotedMatches(s, kw, sameLine) ==
    {ijq \in Occurrences(s, kw) \X QuotedSpans(s) :
        /\ ijq[2][1] >= ijq[1] + Len(kw)
        /\ sameLine => NoLineBreak(s, ijq[1] + Len(kw), ijq[2][1] - 1)}

\* the first quoted span following the keyword: <<>> or << the span >>
FirstQuotedSpan(s, kw, sameLine) ==
    LET found == QuotedMatches(s, kw, sameLine)
        first == CHOOSE m \in found :
                     \A n \in found :
                         \/ m[1] < n[1]
                         \/ m[1] = n[1] /\ m[2][1] <= n[2][1]
    IN  IF found = {} THEN <<>>
        ELSE << SubSeq(s, first[2][1] + 1, first[2][2] - 1) >>

\* the remainder of the line after the keyword and a colon: from the first
\* character after the keyword, the colon if there is one and blanks, up to
\* the end of the line; <<>> when that is empty for every occurrence
RemainderOfLine(s, kw) ==
    LET from(i) ==
            LET e == i + Len(kw) + (IF OccursAt(s, <<":">>, i + Len(kw))
                                    THEN 1 ELSE 0)
                rest == {t \in e..Len(s) : s[t] \notin {" ", "\t"}}
            IN  IF rest = {} THEN Len(s) + 1 ELSE Min(rest)
        to(i) ==
            LET breaks == {t \in from(i)..Len(s) : s[t] \in LineTerminators}
            IN  IF breaks = {} THEN Len(s) ELSE Min(breaks) - 1
        found == {i \in Occurrences(s, kw) : from(i) <= to(i)}
    IN  IF found = {} THEN <<>>
        ELSE << SubSeq(s, from(Min(found)), to(Min(found))) >>

\* keyword at i, then c colons (0 or 1), then w white-space characters, then
\* a non-empty capture that runs to the end of the message without a line
\* break
RestMatches(s, kw) ==
    {icw \in Occurrences(s, kw) \X {0, 1} \X (0..Len(s)) :
        LET e == icw[1] + Len(kw)
            a == e + icw[2] + icw[3]
        IN  /\ icw[2] = 1 => OccursAt(s, <<":">>, e)
            /\ \A t \in (e + icw[2])..(a - 1) :
                  t <= Len(s) /\ s[t] \in WhiteSpace
            /\ a <= Len(s)
            /\ NoLineBreak(s, a, Len(s))}

\* the rest of the message after the first occurrence of the keyword that
\* has one, taking the colon and then as much white space as can be taken
RestOfMessage(s, kw) ==
    LET found == RestMatches(s, kw)
        first == CHOOSE m \in found :
                     \A n \in found :
                         \/ m[1] < n[1]
                         \/ m[1] = n[1] /\ m[2] > n[2]
                         \/ m[1] = n[1] /\ m[2] = n[2] /\ m[3] >= n[3]
    IN  IF found = {} THEN <<>>
        ELSE << SubSeq(s, first[1] + Len(kw) + first[2] + first[3], Len(s)) >>

\* the capture of pattern k of ExtractionOrder on s; asCoded reads a quoted
\* pattern with its keyword and opening quote on one line and a line pattern
\* as the rest of a message that ends on that line
CaptureOf(s, k, asCoded) ==
    IF ExtractionOrder[k].kind = "quoted"
    THEN FirstQuotedSpan(s, ExtractionOrder[k].kw, asCoded)
    ELSE IF asCoded THEN RestOfMessage(s, ExtractionOrder[k].kw)
         ELSE RemainderOfLine(s, ExtractionOrder[k].kw)

\* the capture of the first pattern, in the order of ExtractionOrder, that
\* matches s: <<>> when none does
FirstCapture(s, asCoded) ==
    LET matching == {k \in 1..Len(ExtractionOrder) :
                        CaptureOf(s, k, asCoded) # <<>>}
    IN  IF matching = {} THEN <<>>
        ELSE CaptureOf(s, Min(matching), asCoded)

\* the invocation of caller p extracted the title FirstCapture gives: it
\* called create with the trimmed capture, or no collaborator when no
\* pattern matches
ExtractedAs(p, asCoded) ==
    LET capture == FirstCapture(Lowered(p), asCoded)
    IN  IF capture = <<>>
        THEN call[p].sent = <<>> /\ call[p].title = <<>>
        ELSE /\ call[p].title = << trim(capture[1]) >>
             /\ Len(call[p].sent) = 1
             /\ call[p].sent[1].op = "create"
             /\ call[p].sent[1].args.title = trim(capture[1])

\* C12: the title is the capture of the first of the six patterns, in the
\* order crear, create, nueva tarea, new task, agregar, add, that matches, a
\* quoted pattern capturing the first quoted span following its keyword and
\* a line pattern the remainder of the line after its keyword.
C12_PatternOrder ==
    \A p \in Callers :
        Started(p) /\ call[p].handler = "handleTaskCreation" =>
            ExtractedAs(p, FALSE)

\* the same order and first-match rule with the patterns read as the
\* regular expressions are written: a quoted pattern matches only with its
\* keyword and the opening quote on one line, and a line pattern captures
\* the rest of the message and matches only when no line break follows the
\* start of the capture
OrderWithinLine ==
    \A p \in Callers :
        Started(p) /\ call[p].handler = "handleTaskCreation" =>
            ExtractedAs(p, TRUE)

\* a message in which a later pattern's clause comes first in the text: the
\* title is taken from the clause of the earlier pattern
OrderWithinLineReached ==
    \E p \in Callers :
        /\ Done(p)
        /\ Resolved(p)
        /\ OccursAt(Lowered(p), kwAdd \o <<" ", "\"", "x", "\"">>, 1)
        /\ IsSubstring(kwCrear \o <<" ", "\"", "y", "\"">>, Lowered(p))
        /\ call[p].title = << <<"y">> >>

\* the reply the collaborator gave to caller p's call
Reply(p) == call[p].reply[1].value

\* the atoms of text that are in the set atoms, in their order in text
Restricted(text, atoms) ==
    LET idx == {i \in 1..Len(text) : text[i] \in atoms}
        nth(n) == CHOOSE i \in idx : Cardinality({j \in idx : j <= i}) = n
    IN  [n \in 1..Cardinality(idx) |-> text[nth(n)]]

\* text ends with suffix
EndsWith(text, suffix) ==
    /\ Len(suffix) <= Len(text)
    /\ SubSeq(text, Len(text) - Len(suffix) + 1, Len(text)) = suffix

\* round(100 * completedCount / total), a half rounded up, 0 when total = 0
RoundedPercent(summary) ==
    IF summary.total > 0
    THEN (200 * GetEntry(summary.byStatus, "Completed") + summary.total)
             \div (2 * summary.total)
    ELSE 0

\* the status report caller p returned: header, total line, one line per
\* entry of byStatus in the order of the entries, a last line with the rate
\* rates(summary), the action and three suggestions
StatusReport(p, exactRate) ==
    LET response == ReturnedValue(p).response
        byStatus == Reply(p).byStatus
        rates == IF exactRate THEN {RoundedPercent(Reply(p))} ELSE 0..100
    IN  /\ response[1] = "[chart] **Resumen de Tareas:**\n\n"
        /\ IsSubstring(<< "* Total: " >> \o NumToStr(Reply(p).total)
                           \o << " tareas\n" >>, response)
        /\ Restricted(response, Statuses) =
               [k \in 1..Len(byStatus) |-> byStatus[k].key]
        /\ \A k \in 1..Len(byStatus) :
              IsSubstring(<< byStatus[k].key, ": " >>
                              \o NumToStr(byStatus[k].value)
                              \o << " tareas\n" >>, response)
        /\ Len(Restricted(response, {" tareas\n"})) = 1 + Len(byStatus)
        /\ \E n \in rates :
              EndsWith(response, << "\n[target] Tasa de completacion: " >>
                                     \o NumToStr(n) \o << "%" >>)
        /\ ReturnedValue(p).actionTaken =
               << [type |-> "query_executed", data |-> Reply(p)] >>
        /\ Len(ReturnedValue(p).suggestions) = 1
        /\ Len(ReturnedValue(p).suggestions[1]) = 3

\* C13: on a successful status query the response has the header 'Resumen
\* de Tareas', the line 'Total: N tareas' with N = summary.total, exactly
\* one line per entry of summary.byStatus, in the order of the entries, each
\* with its count, and the completion rate round(100 * completed / total);
\* actionTaken is {query_executed, the summary as returned} and there are
\* exactly three suggestions.
C13_StatusReport ==
    \A p \in Callers :
        /\ Started(p)
        /\ call[p].handler = "handleStatusQuery"
        /\ Resolved(p)
        => /\ Done(p)
           /\ call[p].outcome[1].kind = "return"
           /\ StatusReport(p, TRUE)

\* the same report with the last line holding some whole percentage, not
\* necessarily the rounded one
StatusReportLayout ==
    \A p \in Callers :
        /\ Started(p)
        /\ call[p].handler = "handleStatusQuery"
        /\ Resolved(p)
        => /\ Done(p)
           /\ call[p].outcome[1].kind = "return"
           /\ StatusReport(p, FALSE)

\* a status query answered on a summary whose byStatus has three entries
\* that are not in the order of the enumeration
StatusReportLayoutReached ==
    \E p \in Callers :
        /\ Done(p)
        /\ call[p].handler = "handleStatusQuery"
        /\ Resolved(p)
        /\ Len(Reply(p).byStatus) = 3
        /\ Reply(p).byStatus[1].key = "Completed"
        /\ Reply(p).byStatus[2].key = "Blocked"
        /\ Reply(p).byStatus[2].value = 3

\* the sum of the values of a map
RECURSIVE SumOfValues(_)
SumOfValues(entries) ==
    IF entries = <<>> THEN 0
    ELSE entries[1].value + SumOfValues(Tail(entries))

\* the percentages the last line of caller p's status report may show
ReportedRate(p) ==
    {n \in 0..100 :
        EndsWith(ReturnedValue(p).response,
                 << "\n[target] Tasa de completacion: " >> \o NumToStr(n)
                     \o << "%" >>)}

\* C14: the completion rate the status query reports is
\* round(100 * completedCount / total), with completedCount the Completed
\* entry of byStatus or 0; it is 0 when total = 0 and a whole number in
\* [0,100] whenever the values of byStatus sum to total.
C14_CompletionRate ==
    \A p \in Callers :
        /\ Done(p)
        /\ call[p].handler = "handleStatusQuery"
        /\ Resolved(p)
        /\ SumOfValues(Reply(p).byStatus) = Reply(p).total
        => ReportedRate(p) = {RoundedPercent(Reply(p))}

\* what holds of the rate as computed: a whole number in [0,100], 0 when
\* total = 0, 100 when every task is Completed, and never further than 1
\* from the rounded percentage
RateInRange ==
    \A p \in Callers :
        /\ Done(p)
        /\ call[p].handler = "handleStatusQuery"
        /\ Resolved(p)
        /\ SumOfValues(Reply(p).byStatus) = Reply(p).total
        => \E n \in 0..100 :
              /\ ReportedRate(p) = {n}
              /\ Reply(p).total = 0 => n = 0
              /\ /\ Reply(p).total > 0
                 /\ GetEntry(Reply(p).byStatus, "Completed") = Reply(p).total
                 => n = 100
              /\ n \in {RoundedPercent(Reply(p)) - 1, RoundedPercent(Reply(p))}

\* a status report on 40 tasks of which 23 are Completed
RateInRangeReached ==
    \E p \in Callers :
        /\ Done(p)
        /\ call[p].handler = "handleStatusQuery"
        /\ Resolved(p)
        /\ Reply(p).total = 40
        /\ GetEntry(Reply(p).byStatus, "Completed") = 23
        /\ ReportedRate(p) = {57}

\* what ChatRepository.getTasksSummary returns on the store as it is
Summary == getTasksSummary(tasks, users, taskAssignments)

\* C15: after any sequence of task creations, status updates and deletions
\* getTasksSummary returns a byStatus whose values sum to total, a total
\* that is the number of stored tasks, and a blocked list that is exactly
\* the stored tasks whose status is Blocked.
C15_SummaryConsistent ==
    /\ SumOfValues(Summary.byStatus) = Summary.total
    /\ Summary.total = Len(tasks)
    /\ \A k \in 1..Len(Summary.blocked) :
          /\ Summary.blocked[k].status = "Blocked"
          /\ \E t \in 1..Len(tasks) :
                /\ tasks[t].id = Summary.blocked[k].id
                /\ tasks[t].status = "Blocked"
                /\ tasks[t].title = Summary.blocked[k].title
          /\ \A j \in 1..Len(Summary.blocked) :
                Summary.blocked[j].id = Summary.blocked[k].id => j = k
    /\ \A t \in 1..Len(tasks) :
          tasks[t].status = "Blocked"
          => \E k \in 1..Len(Summary.blocked) :
                Summary.blocked[k].id = tasks[t].id

\* a creation, an update and a deletion have happened and the task that is
\* left, the second one created, is Blocked
C15_Witness ==
    /\ performed = {"create", "update", "delete"}
    /\ Len(tasks) = 1
    /\ tasks[1].id = 2
    /\ tasks[1].status = "Blocked"
    /\ Len(Summary.blocked) = 1

\* what ChatRepository.getUserStats returns on the store as it is
UserStats == getUserStats(tasks, users, taskAssignments)

\* C16: in every result of getUserStats mostBusyUser is null if and only if
\* tasksPerUser is empty, whatever users are stored: users without active
\* tasks, users of any name.
C16_MostBusyUserAbsence ==
    UserStats.mostBusyUser = <<>> <=> UserStats.tasksPerUser = <<>>

\* what holds as computed: mostBusyUser is null exactly when tasksPerUser
\* is empty or the user the sort puts first has the empty name
AbsentOrUnnamed ==
    UserStats.mostBusyUser = <<>>
    <=> \/ UserStats.tasksPerUser = <<>>
        \/ \E i \in 1..Len(UserStats.tasksPerUser) :
              /\ UserStats.tasksPerUser[i].key = <<>>
              /\ \A j \in 1..Len(UserStats.tasksPerUser) :
                    \/ UserStats.tasksPerUser[j].value
                           < UserStats.tasksPerUser[i].value
                    \/ /\ UserStats.tasksPerUser[j].value
                              = UserStats.tasksPerUser[i].value
                       /\ i <= j

\* C17: whenever getUserStats returns a mostBusyUser, it is a key of
\* tasksPerUser and no key of tasksPerUser has a larger count.
C17_MostBusyUserMaximal ==
    UserStats.mostBusyUser # <<>>
    => \E i \in 1..Len(UserStats.tasksPerUser) :
          /\ UserStats.tasksPerUser[i].key = UserStats.mostBusyUser[1]
          /\ \A j \in 1..Len(UserStats.tasksPerUser) :
                UserStats.tasksPerUser[i].value
                    >= UserStats.tasksPerUser[j].value

\* a mostBusyUser that is not the first user read: Carlos with an active
\* task, Ana with none
C17_Witness ==
    /\ UserStats.mostBusyUser = << <<"C", "a", "r", "l", "o", "s">> >>
    /\ Len(UserStats.tasksPerUser) = 2
    /\ UserStats.tasksPerUser[1].value = 0
    /\ UserStats.tasksPerUser[2].value >= 1
    /\ "update" \in performed

\* the assignment rows of user u that are on a task whose status is
\* Created, InProgress or Blocked
ActiveAssignments(u) ==
    {i \in 1..Len(taskAssignments) :
        /\ taskAssignments[i].userId = u.id
        /\ \E t \in 1..Len(tasks) :
              /\ tasks[t].id = taskAssignments[i].taskId
              /\ tasks[t].status \in {"Created", "InProgress", "Blocked"}}

\* the count tasksPerUser holds for user u is the number of u's active
\* assignments
CountReported(u) ==
    \E i \in 1..Len(UserStats.tasksPerUser) :
        /\ UserStats.tasksPerUser[i].key = u.name
        /\ UserStats.tasksPerUser[i].value = Cardinality(ActiveAssignments(u))

\* C18: after any sequence of assignments and status changes the count
\* getUserStats reports for a user is the number of that user's assignments
\* on tasks whose status is Created, InProgress or Blocked: a task moved to
\* Completed or Cancelled leaves the count, a task moved back re-enters it.
C18_ActiveCount ==
    \A u \in 1..Len(users) : CountReported(users[u])

\* the same for the users whose name no other user bears
ActiveCountByName ==
    \A u \in 1..Len(users) :
        (\A v \in 1..Len(users) : users[v].name = users[u].name => v = u)
        => CountReported(users[u])

\* a user whose only assignment is on a task that an update has moved to
\* Completed: the count is 0
ActiveCountByNameReached ==
    /\ "update" \in performed
    /\ \E u \in 1..Len(users) :
          /\ \A v \in 1..Len(users) : users[v].name = users[u].name => v = u
          /\ ActiveAssignments(users[u]) = {}
          /\ \E i \in 1..Len(taskAssignments), t \in 1..Len(tasks) :
                /\ taskAssignments[i].userId = users[u].id
                /\ tasks[t].id = taskAssignments[i].taskId
                /\ tasks[t].status = "Completed"

\* the positions of atom in text, in increasing order
PositionsOf(atom, text) ==
    LET idx == {i \in 1..Len(text) : text[i] = atom}
    IN  [n \in 1..Cardinality(idx) |->
            CHOOSE i \in idx : Cardinality({j \in idx : j <= i}) = n]

\* the decimal digits
Digits == {"0", "1", "2", "3", "4", "5", "6", "7", "8", "9"}

\* C19: when getTasksSummary succeeds with an empty blocked list the
\* blocked query answers the fixed celebratory text with no actionTaken;
\* with a non-empty list the response does not hold the celebratory text,
\* its header shows the number of blocked tasks, it lists every blocked
\* task once, numbered 1, 2, ... in the order of the list, and actionTaken
\* is {query_executed, {blockedTasks: the whole list}}.
C19_BlockedReport ==
    \A p \in Callers :
        /\ Started(p)
        /\ call[p].handler = "handleBlockedTasksQuery"
        /\ Resolved(p)
        => /\ Done(p)
           /\ call[p].outcome[1].kind = "return"
           /\ LET response == ReturnedValue(p).response
                  blocked == Reply(p).blocked
                  entry == PositionsOf(". **", response)
              IN  IF blocked = <<>>
                  THEN /\ response = CelebratoryText
                       /\ ReturnedValue(p).actionTaken = <<>>
                  ELSE /\ \A i \in 1..Len(response) :
                             response[i] # CelebratoryText[1]
                       /\ SubSeq(response, 1, 2 + Len(NumToStr(Len(blocked))))
                              = << "[no_entry] **Tareas Bloqueadas (" >>
                                \o NumToStr(Len(blocked)) \o << "):**\n\n" >>
                       /\ Len(entry) = Len(blocked)
                       /\ \A k \in 1..Len(blocked) :
                             LET at == entry[k]
                                 number == NumToStr(k)
                                 title == blocked[k].title
                             IN  /\ at > Len(number) + 1
                                 /\ SubSeq(response, at - Len(number), at - 1)
                                        = number
                                 /\ response[at - Len(number) - 1] \notin Digits
                                 /\ at + Len(title) + 1 <= Len(response)
                                 /\ SubSeq(response, at + 1, at + Len(title))
                                        = title
                                 /\ response[at + Len(title) + 1] = "**\n"
                       /\ ReturnedValue(p).actionTaken =
                              << [type |-> "query_executed",
                                  data |-> [blockedTasks |-> blocked]] >>

\* a blocked query answered on three blocked tasks that are not the first
\* rows of the table
C19_Witness ==
    \E p \in Callers :
        /\ Done(p)
        /\ call[p].handler = "handleBlockedTasksQuery"
        /\ Resolved(p)
        /\ Len(Reply(p).blocked) = 3
        /\ Reply(p).blocked[1].id > 1
        /\ Reply(p).blocked[3].id > Reply(p).blocked[2].id + 1

\* the line of the busy-user report for one entry of tasksPerUser
UserLine(entry) ==
    << "* ",
       IF entry.value > 3 THEN "[fire]"
       ELSE IF entry.value > 1 THEN "[clipboard]" ELSE "[ok]",
       " " >>
    \o entry.key \o << ": " >> \o NumToStr(entry.value) \o << " tareas\n" >>

\* the lines of entries taken in the order given
RECURSIVE LinesInOrder(_, _, _)
LinesInOrder(entries, order, k) ==
    IF k > Len(entries) THEN <<>>
    ELSE UserLine(entries[order[k]]) \o LinesInOrder(entries, order, k + 1)

\* C20: when mostBusyUser is present the busy-user query names it with its
\* count of active tasks, then lists every user of tasksPerUser exactly
\* once, by non-increasing count, each line with the marker of its count
\* (more than 3, else more than 1, else the lowest), and actionTaken is
\* {query_executed, userStats}.
C20_BusyUserReport ==
    \A p \in Callers :
        /\ Started(p)
        /\ call[p].handler = "handleBusyUserQuery"
        /\ Resolved(p)
        /\ Reply(p).mostBusyUser # <<>>
        => /\ Done(p)
           /\ call[p].outcome[1].kind = "return"
           /\ LET response == ReturnedValue(p).response
                  entries == Reply(p).tasksPerUser
                  name == Reply(p).mostBusyUser[1]
                  named == << "[trophy] Usuario mas ocupado: **" >> \o name
                           \o << "** (" >>
                           \o NumToStr(GetEntry(entries, name))
                           \o << " tareas activas)\n\n",
                                 "[chart] **Distribucion de tareas:**\n" >>
              IN  /\ SubSeq(response, 2, 1 + Len(named)) = named
                  /\ \E order \in Permutations(1..Len(entries)) :
                        /\ \A k \in 1..(Len(entries) - 1) :
                              entries[order[k]].value
                                  >= entries[order[k + 1]].value
                        /\ SubSeq(response, 2 + Len(named), Len(response))
                               = LinesInOrder(entries, order, 1)
           /\ ReturnedValue(p).actionTaken =
                  << [type |-> "query_executed", data |-> Reply(p)] >>

\* a busy-user query answered on three users of the three tiers, the
\* busiest of them read last
C20_Witness ==
    \E p \in Callers :
        /\ Done(p)
        /\ call[p].handler = "handleBusyUserQuery"
        /\ Resolved(p)
        /\ Reply(p).mostBusyUser = << << "Ana" >> >>
        /\ Len(Reply(p).tasksPerUser) = 3
        /\ Reply(p).tasksPerUser[1].value = 2
        /\ Reply(p).tasksPerUser[2].value = 0
        /\ Reply(p).tasksPerUser[3].value = 5

\* C21: for every message that holds no keyword of any intent
\* processMessage makes no collaborator call and returns one of the three
\* introductory texts, the four fixed suggestions and no actionTaken.
C21_GeneralReply ==
    \A p \in Callers :
        Started(p) /\ Hits(Lowered(p)) = {}
        => /\ Done(p)
           /\ call[p].sent = <<>>
           /\ call[p].outcome[1].kind = "return"
           /\ \E i \in 1..3 : ReturnedValue(p).response = GeneralTexts[i]
           /\ ReturnedValue(p).suggestions =
                  << << "Crear tarea \"Mi nueva tarea\"",
                        "Que tareas estan bloqueadas?",
                        "Quien tiene mas tareas pendientes?",
                        "Ver resumen de tareas" >> >>
           /\ ReturnedValue(p).actionTaken = <<>>

\* the message Hola answered with the third introductory text
C21_Witness ==
    \E p \in Callers :
        /\ Done(p)
        /\ call[p].messageData.message = <<"H", "o", "l", "a">>
        /\ ReturnedValue(p).response = GeneralTexts[3]

\* C22: for the general message 'Hola' the response holds the word
\* 'asistente' and suggestions is defined, whichever introductory text the
\* random choice selects.
C22_MentionsAssistant ==
    \A p \in Callers :
        Done(p) /\ call[p].messageData.message = <<"H", "o", "l", "a">>
        => /\ call[p].outcome[1].kind = "return"
           /\ \E i \in 1..Len(ReturnedValue(p).response) :
                 ReturnedValue(p).response[i] = "asistente"
           /\ ReturnedValue(p).suggestions # <<>>

\* what holds of the reply to 'Hola': suggestions is defined, and the word
\* 'asistente' is there exactly when the first text was selected
AssistantInFirstText ==
    \A p \in Callers :
        Done(p) /\ call[p].messageData.message = <<"H", "o", "l", "a">>
        => /\ ReturnedValue(p).suggestions # <<>>
           /\ (\E i \in 1..Len(ReturnedValue(p).response) :
                  ReturnedValue(p).response[i] = "asistente")
              <=> ReturnedValue(p).response = GeneralTexts[1]

\* the k-th collaborator result caller p got, without its instant
ResultOf(p, k) ==
    [f \in DOMAIN call[p].reply[k] \ {"at"} |-> call[p].reply[k][f]]

\* callers p and q got the same collaborator results, as far as both got
\* one, and the same random choice, when both drew one
SameResults(p, q) ==
    /\ \A k \in 1..Len(call[p].reply) :
          k <= Len(call[q].reply) => ResultOf(p, k) = ResultOf(q, k)
    /\ call[p].random # <<>> /\ call[q].random # <<>>
       => call[p].random = call[q].random

\* C23: userId and context never alter routing or output: two invocations
\* with the same message, the same collaborator results and the same random
\* choice dispatch to the same handler, make the same collaborator calls
\* and return the same response, actionTaken and suggestions, whatever
\* their userId and context.
C23_FieldsIgnored ==
    \A p \in Callers, q \in Callers :
        /\ Done(p) /\ Done(q)
        /\ call[p].messageData.message = call[q].messageData.message
        /\ SameResults(p, q)
        => /\ call[p].handler = call[q].handler
           /\ call[p].sent = call[q].sent
           /\ call[p].outcome[1].kind = "return"
           /\ call[q].outcome[1].kind = "return"
           /\ ReturnedValue(p).response = ReturnedValue(q).response
           /\ ReturnedValue(p).actionTaken = ReturnedValue(q).actionTaken
           /\ ReturnedValue(p).suggestions = ReturnedValue(q).suggestions

\* two status queries, one with userId and context and one without, both
\* answered with the same summary
C23_Witness ==
    /\ \A p \in Callers :
          Done(p) /\ call[p].handler = "handleStatusQuery" /\ Resolved(p)
    /\ call[1].messageData.userId = << 7 >>
    /\ call[1].messageData.context = << "help" >>
    /\ call[2].messageData.userId = <<>>
    /\ call[2].messageData.context = <<>>
    /\ ResultOf(1, 1) = ResultOf(2, 1)
    /\ Reply(1).total = 3

\* C24: ChatController.processMessage answers 400 'Message is required'
\* without invoking the use case whenever body.message is missing, empty or
\* not a string; otherwise it invokes the use case exactly once with that
\* message and sends its result; so the use case is only ever invoked with
\* a non-empty string.
C24_ControllerValidates ==
    \A p \in Callers :
        /\ http[p].pc # "idle" =>
              LET m == http[p].body.message
              IN  IF m.type # "string" \/ m.value = <<>>
                  THEN /\ http[p].pc = "sent"
                       /\ http[p].status = 400
                       /\ http[p].json =
                              << [error |-> << "Message is required" >>] >>
                       /\ http[p].invoked = <<>>
                       /\ call[p].pc = "idle"
                  ELSE /\ Len(http[p].invoked) = 1
                       /\ http[p].invoked[1].message = m.value
                       /\ call[p].pc # "idle"
                       /\ call[p].messageData = http[p].invoked[1]
                       /\ http[p].pc = "sent" =>
                             /\ Done(p)
                             /\ http[p].status = 200
                             /\ http[p].json = << ReturnedValue(p) >>
        /\ call[p].pc # "idle" => call[p].messageData.message # <<>>

\* a request whose message is one blank has been answered with the result
\* of the use case
C24_Witness ==
    \E p \in Callers :
        /\ http[p].pc = "sent"
        /\ http[p].body.message = [type |-> "string", value |-> <<" ">>]
        /\ http[p].status = 200
        /\ http[p].json = << ReturnedValue(p) >>

\* the call kept in result was of op
Called(op) == result # <<>> /\ result[1].op = op

\* there was a task with this id when the call kept in result started
ExistedBefore(id) ==
    \E t \in 1..Len(result[1].before.tasks) : result[1].before.tasks[t].id = id

\* the tables are as they were when the call kept in result started
StoreUnchanged ==
    /\ tasks = result[1].before.tasks
    /\ taskAssignments = result[1].before.taskAssignments

\* C25: TaskRepository.update(id, data) returns null, rather than failing,
\* when no task with that id exists, and leaves tasks and assignments
\* unchanged in that case.
C25_UpdateReturnsNull ==
    Called("TaskRepository.update") /\ ~ExistedBefore(result[1].id)
        => /\ result[1].outcome = [kind |-> "return", value |-> <<>>]
           /\ StoreUnchanged

\* what TaskRepository.update does for the id of no task: it rejects with
\* the error of prisma.task.update and leaves the tables as they were
MissingUpdateRejects ==
    Called("TaskRepository.update") /\ ~ExistedBefore(result[1].id)
        => /\ result[1].outcome = [kind |-> "throw", error |-> RecordNotFound]
           /\ StoreUnchanged

\* the task row with this id when the call kept in result started
RowBefore(id) ==
    result[1].before.tasks[CHOOSE t \in 1..Len(result[1].before.tasks) :
                               result[1].before.tasks[t].id = id]

\* C26: TaskUseCase.getTaskById, updateTask and deleteTask called with the
\* id of no task fail with the error 'Task with id <id> not found' and
\* change neither tasks nor assignments; called with the id of a task,
\* getTaskById returns the task with that id and its title, and deleteTask
\* returns success = true exactly when the task was removed.
C26_UseCaseNotFound ==
    /\ \A op \in {"TaskUseCase.getTaskById", "TaskUseCase.updateTask",
                  "TaskUseCase.deleteTask"} :
           Called(op) /\ ~ExistedBefore(result[1].id)
               => /\ result[1].outcome
                         = [kind |-> "throw", error |-> TaskNotFound(result[1].id)]
                  /\ StoreUnchanged
    /\ Called("TaskUseCase.getTaskById") /\ ExistedBefore(result[1].id)
           => /\ result[1].outcome.kind = "return"
              /\ Len(result[1].outcome.value) = 1
              /\ result[1].outcome.value[1].id = result[1].id
              /\ result[1].outcome.value[1].title = RowBefore(result[1].id).title
              /\ StoreUnchanged
    /\ Called("TaskUseCase.deleteTask") /\ ExistedBefore(result[1].id)
           => /\ result[1].outcome.kind = "return"
              /\ result[1].outcome.value[1].success
                     = ~(\E t \in 1..Len(tasks) : tasks[t].id = result[1].id)

\* updateTask was asked to reassign and to complete the task of an id that
\* no task of a store with tasks has, and failed
C26_Witness ==
    /\ Called("TaskUseCase.updateTask")
    /\ result[1].before.tasks # <<>>
    /\ ~ExistedBefore(result[1].id)
    /\ result[1].data = [status |-> << "Completed" >>, userIds |-> << <<1>> >>]
    /\ result[1].outcome.kind = "throw"

\* deleteTask removed a task that had assignments and said so
DeleteSucceeded ==
    /\ Called("TaskUseCase.deleteTask")
    /\ ExistedBefore(result[1].id)
    /\ result[1].outcome.value[1].success
    /\ Len(taskAssignments) < Len(result[1].before.taskAssignments)

\* deleteTask could not remove a task and returned success = false
DeleteRefused ==
    /\ Called("TaskUseCase.deleteTask")
    /\ ExistedBefore(result[1].id)
    /\ ~result[1].outcome.value[1].success
    /\ StoreUnchanged

\* C27: in the frontend's TaskProvider loading is true while at least one
\* of fetchAll, addTask, updateTaskStatus, editTask and removeTask is still
\* awaiting its API call, also when they overlap, and false once all of
\* them have settled.
C27_LoadingWhilePending ==
    provider.loading = (provider.pending # <<>>)

\* the half of it that holds: with nothing in flight loading is false
SettledNotLoading ==
    provider.pending = <<>> => ~provider.loading

\* C28: the busy-user query answers the fixed 'no users with active
\* tasks' text, with no actionTaken, whenever no user has an active task,
\* also when users are stored and the count of each is 0; it never names
\* as the busiest a user with 0 active tasks.
C28_NoBusyUserWithoutWork ==
    \A p \in Callers :
        /\ Started(p)
        /\ call[p].handler = "handleBusyUserQuery"
        /\ Resolved(p)
        => /\ (\A u \in 1..Len(users) : ActiveAssignments(users[u]) = {})
                  => /\ Done(p)
                     /\ call[p].outcome[1].kind = "return"
                     /\ ReturnedValue(p).response = NoBusyUserText
                     /\ ReturnedValue(p).actionTaken = <<>>
           /\ Reply(p).mostBusyUser # <<>>
                  => GetEntry(Reply(p).tasksPerUser, Reply(p).mostBusyUser[1]) > 0

\* what holds as computed: the fixed text is the answer when no user is
\* stored (or the first of the sort has the empty name), and only then
NoBusyUserWithoutUsers ==
    \A p \in Callers :
        /\ Started(p)
        /\ call[p].handler = "handleBusyUserQuery"
        /\ Resolved(p)
        => /\ Done(p)
           /\ call[p].outcome[1].kind = "return"
           /\ users = <<>> => /\ ReturnedValue(p).response = NoBusyUserText
                              /\ ReturnedValue(p).actionTaken = <<>>
           /\ ReturnedValue(p).response = NoBusyUserText
                  => Reply(p).mostBusyUser = <<>>

\* the userIds of the assignment rows of task id in a table, in table order
AssignedTo(id, assignmentTable) ==
    LET rows == SelectSeq(assignmentTable, LAMBDA a : a.taskId = id)
    IN  [k \in 1..Len(rows) |-> rows[k].userId]

\* after a call of TaskRepository.update that succeeded the task's
\* assignments are the userIds given, and the table is as before when none
\* were given
UpdateAssigns ==
    Called("TaskRepository.update") /\ result[1].outcome.kind = "return"
        => IF result[1].data.userIds # <<>>
           THEN AssignedTo(result[1].id, taskAssignments)
                    = result[1].data.userIds[1]
           ELSE taskAssignments = result[1].before.taskAssignments

\* C29: TaskRepository.update is all-or-nothing on the assignments: after a
\* successful call with userIds the task's assignments are exactly those
\* userIds (none for the empty list), a call without userIds leaves the
\* assignments as they were, and after a call that failed the task's
\* previous assignments are still there.
C29_UpdateAllOrNothing ==
    /\ UpdateAssigns
    /\ Called("TaskRepository.update") /\ result[1].outcome.kind = "throw"
           => AssignedTo(result[1].id, taskAssignments)
                  = AssignedTo(result[1].id, result[1].before.taskAssignments)

\* what a failed call with userIds leaves: no assignment of the task
FailedUpdateUnassigns ==
    /\ Called("TaskRepository.update")
    /\ result[1].outcome.kind = "throw"
    /\ result[1].data.userIds # <<>>
    => AssignedTo(result[1].id, taskAssignments) = <<>>

\* C30: getUserStats reports one entry of tasksPerUser per stored user: the
\* number of keys of tasksPerUser is totalUsers and each user's own count
\* of active tasks is reported, also when two users have the same name.
C30_EntryPerUser ==
    /\ Len(UserStats.tasksPerUser) = UserStats.totalUsers
    /\ \A u \in 1..Len(users) :
          \E i \in 1..Len(UserStats.tasksPerUser) :
              /\ UserStats.tasksPerUser[i].key = users[u].name
              /\ UserStats.tasksPerUser[i].value
                     = Cardinality(ActiveAssignments(users[u]))

\* what holds as computed: one entry per name, with the count of the last
\* stored user of that name
EntryPerName ==
    /\ Len(UserStats.tasksPerUser)
           = Cardinality({users[u].name : u \in 1..Len(users)})
    /\ UserStats.totalUsers = Len(users)
    /\ \A i \in 1..Len(UserStats.tasksPerUser) :
          \E u \in 1..Len(users) :
              /\ users[u].name = UserStats.tasksPerUser[i].key
              /\ \A v \in (u + 1)..Len(users) : users[v].name # users[u].name
              /\ UserStats.tasksPerUser[i].value
                     = Cardinality(ActiveAssignments(users[u]))

====
